---- MODULE Spec2Model ----
(***************************************************************************)
(* The OneBot channel adapter (package channels, type OneBotChannel): the  *)
(* connection lifecycle (Start, connect, reconnectLoop, listen, Stop), the *)
(* inbound path (handleRawEvent, handleMessage, checkGroupTrigger) and the *)
(* dedup window (isDuplicate).  Every goroutine is a process with a        *)
(* program counter; one action is one atomic step of the code (a locked    *)
(* section, a channel select, a blocking call returning).                  *)
(***************************************************************************)
EXTENDS Integers, Sequences, FiniteSets, TLC

(* ------------------------------ bounds --------------------------------- *)
\* Length of dedupRing (const dedupSize, 1024 in the code), scaled down.
DedupSize == 2
\* Sockets the dialer can hand out in one run (successful dials).
MaxSockets == 2
\* Frames the peer sends in one run, over all sockets: enough to record an
\* id, push it out of the window and send it again.
MaxFrames == DedupSize + 2
\* Frames waiting unread on one socket.
MaxInbox == 1

\* Tasks that call Send concurrently, and calls of Send in one run.
MaxSenders == 2
MaxSends == 2

\* Bits of an int64 and of an int, scaled down.
IntBits == 10

\* Integers handed to the integer decoders, as numbers and as strings: from
\* -MaxDecoded to MaxDecoded.
MaxDecoded == 20

\* Characters in a file given to the edit tool; old_text has one fewer.
MaxText == 3

(* ------------------------------ values --------------------------------- *)
\* The nil *websocket.Conn.
Nil == 0
SockIds == 1..MaxSockets
\* Message ids that isDuplicate records: everything but "" and "0".
IdPool == <<"m1", "m2", "m3", "m4", "m5", "m6">>
RecIds == {IdPool[i] : i \in 1..(DedupSize + 2)}
\* The ids parseJSONString can produce: absent -> "", the number 0 -> "0".
AllIds == RecIds \cup {"", "0"}

\* The tasks calling Send.
Senders == 1..MaxSenders
\* No request built (the zero values of action and params).
NoReq == [action |-> "", id |-> 0]

\* No frame read yet.
NoFrame == [json |-> FALSE, none |-> TRUE]

VARIABLES
    config,      \* c.config: WSUrl, ReconnectInterval, GroupTriggerPrefix
    running,     \* BaseChannel.running
    ctx,         \* c.ctx / c.cancel: "nil", "live" or "cancelled"
    conn,        \* c.conn: Nil or a socket
    dedup,       \* c.dedup: the presence set
    dedupRing,   \* c.dedupRing: slot 0..len-1 -> id or ""
    dedupIdx,    \* c.dedupIdx: the cursor
    sock,        \* each socket: "unborn", "open" or "closed" (locally)
    peerUp,      \* each socket: the peer still holds its end
    inbox,       \* each socket: frames sent by the peer and not yet read
    budget,      \* frames the peer has yet to send
    startPc,     \* Start: position of the caller
    startConn,   \* connect's local conn, in Start
    startRet,    \* Start's result: "none", "ok" or an error
    rlPc,        \* reconnectLoop: position
    rlConn,      \* reconnectLoop: the conn it observed, then connect's local conn
    lisPc,       \* listen: position of each listener goroutine
    lisConn,     \* listen: each listener's local conn
    stopPc,      \* Stop: position of the caller
    stopped,     \* some call of Stop has returned
    bus,         \* calls of BaseChannel.HandleMessage, in order
    dupId,       \* the id of the last direct isDuplicate call
    dupRet,      \* what that call returned
    trig,        \* the last direct checkGroupTrigger call: arguments and results
    since,       \* per id: ids recorded since it was last recorded (capped)
    handled,     \* the frame listen's loop body ran on last
    echoCounter, \* c.echoCounter
    writeMu,     \* c.writeMu: 0 when free, else the Send caller holding it
    sendPc,      \* Send: position of each caller
    sendConn,    \* Send: each caller's local conn
    sendReq,     \* Send: each caller's action and params
    sendEcho,    \* Send: each caller's echo number
    sendRet,     \* Send: what the last call to return returned
    sendsLeft,   \* calls of Send still to come
    wire,        \* what the sockets were given to write, in order, by halves
    echoes,      \* the echo numbers assigned, in order
    timed,       \* whether the run tracks the time the reconnect loop waits
    waited,      \* reconnectLoop: time spent in the select so far (capped)
    norm,        \* the last direct normalizeMessageEvent call: argument and results
    dec,         \* the last direct call of the integer decoders: argument and results
    retryPc,     \* DoRequestWithRetry: position of the caller
    retryI,      \* DoRequestWithRetry: the loop index i
    retryResp,   \* DoRequestWithRetry: resp, as its status code, 0 for nil
    retryErr,    \* DoRequestWithRetry: err
    retryRet,    \* DoRequestWithRetry: what it returned
    reqCtx,      \* the request's context: "live" or "cancelled"
    served,      \* what client.Do answered, attempt by attempt
    fs,          \* the file system: per path, the file's content or NoFile
    tool,        \* the EditFileTool: allowedDir and restrict
    editRet      \* the last Execute call: arguments and result

dedupVars == <<dedup, dedupRing, dedupIdx>>
connVars == <<conn, sock, peerUp, inbox, budget>>
startVars == <<startPc, startConn, startRet>>
rlVars == <<rlPc, rlConn, waited>>
lisVars == <<lisPc, lisConn>>
stopVars == <<stopPc, stopped>>
probeVars == <<dupId, dupRet, trig>>
sendVars == <<echoCounter, writeMu, sendPc, sendConn, sendReq, sendEcho,
              sendRet, sendsLeft, wire, echoes>>
retryVars == <<retryPc, retryI, retryResp, retryErr, retryRet, reqCtx, served>>
editVars == <<fs, tool, editRet>>
toolVars == <<timed, norm, dec, retryVars, editVars>>
vars == <<config, running, ctx, dedupVars, connVars, startVars, rlVars,
          lisVars, stopVars, bus, probeVars, since, handled, sendVars, toolVars>>

(* ------------------------------ dedup ---------------------------------- *)
\* len(c.dedupRing)
RingLen == Len(dedupRing)

\* isDuplicate's result: false for "" and "0", else membership in c.dedup.
isDuplicateRet(messageID) ==
    IF messageID = "" \/ messageID = "0" THEN FALSE ELSE messageID \in dedup

\* Variant: the cursor is not advanced after the write.
isDuplicateStuckCursor(messageID) ==
    IF messageID = "" \/ messageID = "0" \/ messageID \in dedup
    THEN UNCHANGED dedupVars
    ELSE LET old == dedupRing[dedupIdx + 1]
         IN /\ dedup' = (IF old # "" THEN dedup \ {old} ELSE dedup) \cup {messageID}
            /\ dedupRing' = [dedupRing EXCEPT ![dedupIdx + 1] = messageID]
            /\ dedupIdx' = dedupIdx

\* Variant: the overwritten slot's id is not deleted from the set.
isDuplicateKeepOld(messageID) ==
    IF messageID = "" \/ messageID = "0" \/ messageID \in dedup
    THEN UNCHANGED dedupVars
    ELSE /\ dedup' = dedup \cup {messageID}
         /\ dedupRing' = [dedupRing EXCEPT ![dedupIdx + 1] = messageID]
         /\ dedupIdx' = (dedupIdx + 1) % Len(dedupRing)

\* Variant: only the empty id is exempt, "0" is recorded like any id.
isDuplicateRecordsZero(messageID) ==
    IF messageID = "" \/ messageID \in dedup
    THEN UNCHANGED dedupVars
    ELSE LET old == dedupRing[dedupIdx + 1]
         IN /\ dedup' = (IF old # "" THEN dedup \ {old} ELSE dedup) \cup {messageID}
            /\ dedupRing' = [dedupRing EXCEPT ![dedupIdx + 1] = messageID]
            /\ dedupIdx' = (dedupIdx + 1) % Len(dedupRing)

\* isDuplicate's effect: nothing for "", "0" and ids present in c.dedup;
\* otherwise evict the slot under the cursor, write the id, advance the cursor.
\* Slots are numbered 0..len-1 in the code and 1..len in dedupRing here.
isDuplicate(messageID) ==
    IF messageID = "" \/ messageID = "0" \/ messageID \in dedup
    THEN UNCHANGED dedupVars
    ELSE LET old == dedupRing[dedupIdx + 1]
         IN /\ dedup' = (IF old # "" THEN dedup \ {old} ELSE dedup) \cup {messageID}
            /\ dedupRing' = [dedupRing EXCEPT ![dedupIdx + 1] = messageID]
            /\ dedupIdx' = (dedupIdx + 1) % RingLen

\* Bookkeeping of the callers' observations: an id was recorded when the call
\* on it returned false and the id is neither "" nor "0".
Min(a, b) == IF a < b THEN a ELSE b
Observe(messageID, ret) ==
    since' = IF ret \/ messageID \notin RecIds
             THEN since
             ELSE [y \in RecIds |->
                     IF y = messageID THEN 0 ELSE Min(DedupSize, since[y] + 1)]

\* A direct call of isDuplicate by a caller that keeps the result.
CallIsDuplicate(messageID) ==
    /\ dupId' = messageID
    /\ dupRet' = isDuplicateRet(messageID)
    /\ trig' = trig
    /\ isDuplicate(messageID)
    /\ Observe(messageID, isDuplicateRet(messageID))
    /\ UNCHANGED <<config, toolVars, handled, sendVars, running, ctx, connVars, startVars, rlVars, lisVars,
                   stopVars, bus>>

(* ------------------------------ Init ----------------------------------- *)
\* NewOneBotChannel: empty set, a ring of empty slots, cursor 0, no connection.
Configs ==
    [WSUrl : {"", "ws://gw"}, ReconnectInterval : {0, 5},
     GroupTriggerPrefix : {<< <<"!">> >>}]

NewOneBotChannel(cfg) ==
    /\ config = cfg
    /\ running = FALSE
    /\ ctx = "nil"
    /\ conn = Nil
    /\ dedup = {}
    /\ dedupRing = [i \in 1..DedupSize |-> ""]
    /\ dedupIdx = 0

\* No call made yet: of normalizeMessageEvent, of the integer decoders, of
\* DoRequestWithRetry, of EditFileTool.Execute; no tool, no files.
NoNorm == [called |-> FALSE]
NoDec == [called |-> FALSE]
NoRet == [returned |-> FALSE, resp |-> 0, err |-> "nil"]
NoEdit == [called |-> FALSE]
NoTool == [allowedDir |-> <<>>, restrict |-> FALSE]
NoFiles == <<>>

\* No call of checkGroupTrigger made yet.
NoTrig ==
    [called |-> FALSE, content |-> <<>>, isBotMentioned |-> FALSE,
     triggered |-> FALSE, strippedContent |-> <<>>]

\* The state after construction with one of the given configurations, and with
\* the peer about to send at most n frames.
InitOf(cfgs, n) ==
    /\ \E cfg \in cfgs : NewOneBotChannel(cfg)
    /\ trig = NoTrig
    /\ sock = [s \in SockIds |-> "unborn"]
    /\ peerUp = [s \in SockIds |-> FALSE]
    /\ inbox = [s \in SockIds |-> <<>>]
    /\ budget = n
    /\ startPc = "idle"
    /\ startConn = Nil
    /\ startRet = "none"
    /\ rlPc = "off"
    /\ rlConn = Nil
    /\ lisPc = [i \in SockIds |-> "unborn"]
    /\ lisConn = [i \in SockIds |-> Nil]
    /\ stopPc = "idle"
    /\ stopped = FALSE
    /\ bus = <<>>
    /\ dupId = ""
    /\ dupRet = FALSE
    /\ since = [y \in RecIds |-> DedupSize]
    /\ handled = NoFrame
    /\ echoCounter = 0
    /\ writeMu = 0
    /\ sendPc = [p \in Senders |-> "idle"]
    /\ sendConn = [p \in Senders |-> Nil]
    /\ sendReq = [p \in Senders |-> NoReq]
    /\ sendEcho = [p \in Senders |-> 0]
    /\ sendRet = "none"
    /\ sendsLeft = MaxSends
    /\ wire = <<>>
    /\ echoes = <<>>
    /\ waited = 0
    /\ norm = NoNorm
    /\ dec = NoDec
    /\ retryPc = "idle"
    /\ retryI = 0
    /\ retryResp = 0
    /\ retryErr = "nil"
    /\ retryRet = NoRet
    /\ reqCtx = "live"
    /\ served = <<>>
    /\ editRet = NoEdit

\* Time is not tracked, no file tool is in use.
InitWith(n) ==
    /\ InitOf(Configs, n)
    /\ timed = FALSE
    /\ tool = NoTool
    /\ fs = NoFiles

Init == InitWith(MaxFrames)

(* ------------------------------ strings -------------------------------- *)
\* A string is a sequence of characters.  In message text the character "["
\* stands for the opening "[CQ:at,qq=" of a mention code, which occurs nowhere
\* else in a text, and "]" for itself.
Space == " "

RECURSIVE TrimLeft(_)
TrimLeft(s) == IF s # <<>> /\ Head(s) = Space THEN TrimLeft(Tail(s)) ELSE s

RECURSIVE TrimRight(_)
TrimRight(s) ==
    IF s # <<>> /\ s[Len(s)] = Space THEN TrimRight(SubSeq(s, 1, Len(s) - 1)) ELSE s

\* strings.TrimSpace
TrimSpace(s) == TrimRight(TrimLeft(s))

\* strings.HasPrefix
HasPrefix(s, prefix) ==
    Len(prefix) <= Len(s) /\ SubSeq(s, 1, Len(prefix)) = prefix

\* strings.TrimPrefix
TrimPrefix(s, prefix) ==
    IF HasPrefix(s, prefix) THEN SubSeq(s, Len(prefix) + 1, Len(s)) ELSE s

\* strings.Contains(s, substr)
Contains(s, substr) ==
    \E k \in 0..(Len(s) - Len(substr)) : SubSeq(s, k + 1, k + Len(substr)) = substr

\* strings.ReplaceAll(s, old, "") for a non-empty old: the non-overlapping
\* occurrences of old are cut out in one pass from the left; what is left is
\* not scanned again.
RECURSIVE ReplaceAll(_, _)
ReplaceAll(s, old) ==
    IF Len(s) < Len(old) THEN s
    ELSE IF HasPrefix(s, old) THEN ReplaceAll(SubSeq(s, Len(old) + 1, Len(s)), old)
    ELSE <<Head(s)>> \o ReplaceAll(Tail(s), old)

(* ------------------------------ integers ------------------------------- *)
\* The width of int64 (and of int), scaled down: IntBits bits, two's complement.
MaxInt64 == 2 ^ (IntBits - 1) - 1
MinInt64 == 0 - 2 ^ (IntBits - 1)

DigitChars == {"0", "1", "2", "3", "4", "5", "6", "7", "8", "9"}
DigitVal(ch) ==
    CASE ch = "0" -> 0 [] ch = "1" -> 1 [] ch = "2" -> 2 [] ch = "3" -> 3
      [] ch = "4" -> 4 [] ch = "5" -> 5 [] ch = "6" -> 6 [] ch = "7" -> 7
      [] ch = "8" -> 8 [] ch = "9" -> 9
DigitChar(d) ==
    CASE d = 0 -> "0" [] d = 1 -> "1" [] d = 2 -> "2" [] d = 3 -> "3"
      [] d = 4 -> "4" [] d = 5 -> "5" [] d = 6 -> "6" [] d = 7 -> "7"
      [] d = 8 -> "8" [] d = 9 -> "9"

\* The value of a sequence of decimal digits, most significant first.
RECURSIVE DigitsVal(_)
DigitsVal(s) ==
    IF s = <<>> THEN 0 ELSE 10 * DigitsVal(SubSeq(s, 1, Len(s) - 1)) + DigitVal(s[Len(s)])

\* strconv.ParseInt(s, 10, 64): an optional sign, then one or more decimal
\* digits; anything else is a syntax error, with value 0.  A value outside the
\* range is a range error, returned with the nearest bound as value.
ParseInt(s) ==
    LET signed == s # <<>> /\ Head(s) \in {"+", "-"}
        digits == IF signed THEN Tail(s) ELSE s
        v == IF signed /\ Head(s) = "-" THEN 0 - DigitsVal(digits)
             ELSE DigitsVal(digits)
    IN IF digits = <<>> \/ \E k \in 1..Len(digits) : digits[k] \notin DigitChars
       THEN [err |-> TRUE, n |-> 0]
       ELSE IF v > MaxInt64 THEN [err |-> TRUE, n |-> MaxInt64]
       ELSE IF v < MinInt64 THEN [err |-> TRUE, n |-> MinInt64]
       ELSE [err |-> FALSE, n |-> v]

\* strconv.FormatInt(n, 10), and the %d of fmt.Sprintf.
RECURSIVE FormatUint(_)
FormatUint(n) ==
    IF n < 10 THEN <<DigitChar(n)>>
    ELSE FormatUint(n \div 10) \o <<DigitChar(n % 10)>>
FormatInt(n) == IF n < 0 THEN <<"-">> \o FormatUint(0 - n) ELSE FormatUint(n)

\* fmt.Sprintf("[CQ:at,qq=%d]", selfID)
cqAt(selfID) == <<"[">> \o FormatInt(selfID) \o <<"]">>

(* ------------------------------ frames --------------------------------- *)
\* A json.RawMessage holding an integer field: absent, null, a JSON integer
\* literal, a JSON string, or any other JSON value (true, 1.5, an object).
Absent == [tag |-> "absent", n |-> 0, s |-> <<>>]
Null == [tag |-> "null", n |-> 0, s |-> <<>>]
Num(n) == [tag |-> "number", n |-> n, s |-> <<>>]
Str(s) == [tag |-> "string", n |-> 0, s |-> s]
NumStr(n) == Str(FormatInt(n))
BadStr == Str(<<"a", "b", "c">>)
OtherJson == [tag |-> "other", n |-> 0, s |-> <<>>]

\* parseJSONInt64: 0 for an empty raw value; what json.Unmarshal stores in an
\* int64 (the literal when it fits, nothing for null); else, for a JSON
\* string, what strconv.ParseInt returns; else an error.
parseJSONInt64(raw) ==
    IF raw.tag = "absent" THEN [err |-> FALSE, n |-> 0]
    ELSE IF raw.tag = "null" THEN [err |-> FALSE, n |-> 0]
    ELSE IF raw.tag = "number" /\ raw.n >= MinInt64 /\ raw.n <= MaxInt64
    THEN [err |-> FALSE, n |-> raw.n]
    ELSE IF raw.tag = "string" THEN ParseInt(raw.s)
    ELSE [err |-> TRUE, n |-> 0]

\* Variant: only JSON numbers are decoded; every JSON string is an error.
parseFlexibleIntNumbersOnly(raw) ==
    IF raw.tag \in {"absent", "null"} THEN [err |-> FALSE, n |-> 0]
    ELSE IF raw.tag = "number" /\ raw.n >= MinInt64 /\ raw.n <= MaxInt64
    THEN [err |-> FALSE, n |-> raw.n]
    ELSE [err |-> TRUE, n |-> 0]

\* parseFlexibleInt: 0 for an empty raw value and for null; the literal when
\* json.Unmarshal stores it in an int; else, for a JSON string, 0 when it is
\* blank and what strconv.Atoi returns for the trimmed string; else an error.
parseFlexibleInt(raw) ==
    IF raw.tag \in {"absent", "null"} THEN [err |-> FALSE, n |-> 0]
    ELSE IF raw.tag = "number" /\ raw.n >= MinInt64 /\ raw.n <= MaxInt64
    THEN [err |-> FALSE, n |-> raw.n]
    ELSE IF raw.tag = "string"
    THEN IF TrimSpace(raw.s) = <<>> THEN [err |-> FALSE, n |-> 0]
         ELSE ParseInt(TrimSpace(raw.s))
    ELSE [err |-> TRUE, n |-> 0]

\* The message field: absent, a JSON string, an array of segments, or any
\* other JSON value.
NoMessage == [form |-> "absent", s |-> <<>>, segs |-> <<>>]
StrMessage(s) == [form |-> "string", s |-> s, segs |-> <<>>]
SegMessage(segs) == [form |-> "segments", s |-> <<>>, segs |-> segs]
OtherMessage == [form |-> "other", s |-> <<>>, segs |-> <<>>]
\* Segments: text with its data.text, at with its data.qq as %v prints it
\* (a JSON string as it is; a JSON number below 10^6 by its digits), and a
\* segment of another type.
TextSeg(text) == [type |-> "text", text |-> text, qq |-> <<>>]
AtSeg(qq) == [type |-> "at", text |-> <<>>, qq |-> qq]
ImageSeg == [type |-> "image", text |-> <<>>, qq |-> <<>>]

\* A frame as json.Unmarshal leaves it in oneBotRawEvent.  json = FALSE is a
\* payload that does not parse.  message_id is given as parseJSONString
\* returns it; sender is "absent", "ok" (an object, nickname "nick") or
\* "bad" (not an object); frames built here carry no time and no sender.
Frame(json, echo, post, mtype, id, user, group, self, rawmsg, msg) ==
    [json |-> json, echo |-> echo, status |-> [Online |-> FALSE, Good |-> FALSE],
     post_type |-> post, message_type |-> mtype,
     message_id |-> id, user_id |-> user, group_id |-> group, self_id |-> self,
     raw_message |-> rawmsg, message |-> msg, time |-> Absent, sender |-> "absent"]

PrivateFrame(id) ==
    Frame(TRUE, "", "message", "private", id, Num(7), Absent, Num(1), <<"h">>, NoMessage)
GroupFrame(id, text) ==
    Frame(TRUE, "", "message", "group", id, Num(7), NumStr(9), Num(1), text, NoMessage)
ApiFrame == Frame(TRUE, "send_1", "", "", "", Absent, Absent, Absent, <<>>, NoMessage)
\* A payload that is not JSON.
BadJson == Frame(FALSE, "", "", "", "", Absent, Absent, Absent, <<>>, NoMessage)
\* A complete private message under another post_type.
PostFrame(post) ==
    Frame(TRUE, "", post, "private", IdPool[1], Num(7), Absent, Num(1), <<"h">>, NoMessage)
\* A complete private message that also carries an echo or a status payload.
EchoFrame == [PrivateFrame(IdPool[1]) EXCEPT !.echo = "send_1"]
StatusFrame(online, good) ==
    [PrivateFrame(IdPool[1]) EXCEPT !.status = [Online |-> online, Good |-> good]]
\* Frames listen discards before handleRawEvent, and frames handleRawEvent
\* ignores.
ControlFrames ==
    {ApiFrame, EchoFrame, StatusFrame(TRUE, FALSE), StatusFrame(FALSE, TRUE)}
      \cup {PostFrame(post) : post \in {"meta_event", "notice", "request", "", "other"}}
\* Message events of each scope: private, group (not triggered, triggered by
\* prefix, by a prefix with nothing but a space after it, by mention), another
\* message_type, and private ones with no content and with a user_id that is
\* no number.
ScopeFrames ==
    {PrivateFrame(IdPool[1]),
     GroupFrame(IdPool[1], <<"h">>), GroupFrame(IdPool[2], <<"!", "h">>),
     GroupFrame(IdPool[2], <<"!", " ", " ">>),
     GroupFrame(IdPool[2], cqAt(1) \o <<" ", "h">>),
     Frame(TRUE, "", "message", "guild", IdPool[1], Num(7), Num(9), Num(1), <<"h">>, NoMessage),
     Frame(TRUE, "", "message", "private", IdPool[1], Num(7), Absent, Num(1), <<>>, NoMessage),
     Frame(TRUE, "", "message", "private", IdPool[1], BadStr, Absent, Num(1),
           <<"h">>, NoMessage)}

\* The ids the peer uses in message frames: one more than the window holds.
FrameIds == {IdPool[i] : i \in 1..(DedupSize + 1)}
Frames ==
    {PrivateFrame(id) : id \in FrameIds}

(* ------------------------------ inbound path --------------------------- *)
\* The loop of parseMessageContentEx over the segments: the text payloads in
\* order, and whether an at segment names selfID or "all".
RECURSIVE segmentsText(_)
segmentsText(segs) ==
    IF segs = <<>> THEN <<>>
    ELSE (IF Head(segs).type = "text" THEN Head(segs).text ELSE <<>>)
           \o segmentsText(Tail(segs))

segmentsMentioned(segs, selfID) ==
    \E k \in 1..Len(segs) :
        /\ segs[k].type = "at"
        /\ selfID > 0
        /\ segs[k].qq = FormatInt(selfID) \/ segs[k].qq = <<"a", "l", "l">>

\* parseMessageContentEx: nothing for an absent message; a plain string loses
\* the mention code of selfID and is then trimmed; a segment list gives its
\* text payloads in order, trimmed; any other value gives nothing.
parseMessageContentEx(raw, selfID) ==
    IF raw.form = "string"
    THEN IF selfID > 0 /\ Contains(raw.s, cqAt(selfID))
         THEN [Text |-> TrimSpace(ReplaceAll(raw.s, cqAt(selfID))),
               IsBotMentioned |-> TRUE]
         ELSE [Text |-> raw.s, IsBotMentioned |-> FALSE]
    ELSE IF raw.form = "segments"
    THEN [Text |-> TrimSpace(segmentsText(raw.segs)),
          IsBotMentioned |-> segmentsMentioned(raw.segs, selfID)]
    ELSE [Text |-> <<>>, IsBotMentioned |-> FALSE]

\* normalizeMessageEvent: fails only on user_id; raw_message, when not empty,
\* is the content, with the mention code of selfID cut out and the rest
\* trimmed when the code occurs in it; else the content is the decoded message.
normalizeOk(raw) == ~parseJSONInt64(raw.user_id).err

\* Variant: the decoded message field is the content whenever it is not
\* empty, and raw_message only stands in for it.
normalizeMessageFieldFirst(raw) ==
    LET selfID == parseJSONInt64(raw.self_id).n
        parsed == parseMessageContentEx(raw.message, selfID)
        strip == raw.raw_message # <<>> /\ selfID > 0
                   /\ Contains(raw.raw_message, cqAt(selfID))
    IN [MessageType |-> raw.message_type,
        MessageID |-> raw.message_id,
        UserID |-> parseJSONInt64(raw.user_id).n,
        GroupID |-> parseJSONInt64(raw.group_id).n,
        Content |-> IF parsed.Text # <<>> THEN parsed.Text
                    ELSE IF strip
                    THEN TrimSpace(ReplaceAll(raw.raw_message, cqAt(selfID)))
                    ELSE raw.raw_message,
        IsBotMentioned |-> parsed.IsBotMentioned \/ strip,
        Sender |-> IF raw.sender = "ok" THEN "nick" ELSE "",
        SelfID |-> selfID,
        Time |-> parseJSONInt64(raw.time).n]

normalizeMessageEvent(raw) ==
    LET selfID == parseJSONInt64(raw.self_id).n
        parsed == parseMessageContentEx(raw.message, selfID)
        strip == raw.raw_message # <<>> /\ selfID > 0
                   /\ Contains(raw.raw_message, cqAt(selfID))
    IN [MessageType |-> raw.message_type,
        MessageID |-> raw.message_id,
        UserID |-> parseJSONInt64(raw.user_id).n,
        GroupID |-> parseJSONInt64(raw.group_id).n,
        Content |-> IF raw.raw_message = <<>> THEN parsed.Text
                    ELSE IF strip
                    THEN TrimSpace(ReplaceAll(raw.raw_message, cqAt(selfID)))
                    ELSE raw.raw_message,
        IsBotMentioned |-> parsed.IsBotMentioned \/ strip,
        Sender |-> IF raw.sender = "ok" THEN "nick" ELSE "",
        SelfID |-> selfID,
        Time |-> parseJSONInt64(raw.time).n]

\* Variant: an empty prefix is tested like any other, and matches.
RECURSIVE prefixScanNoSkip(_, _)
prefixScanNoSkip(content, prefixes) ==
    IF prefixes = <<>> THEN [triggered |-> FALSE, content |-> content]
    ELSE IF HasPrefix(content, Head(prefixes))
    THEN [triggered |-> TRUE,
          content |-> TrimSpace(TrimPrefix(content, Head(prefixes)))]
    ELSE prefixScanNoSkip(content, Tail(prefixes))

\* checkGroupTrigger: a mention triggers; else the first non-empty prefix the
\* content starts with; else not triggered, content unchanged.
RECURSIVE prefixScan(_, _)
prefixScan(content, prefixes) ==
    IF prefixes = <<>> THEN [triggered |-> FALSE, content |-> content]
    ELSE IF Head(prefixes) # <<>> /\ HasPrefix(content, Head(prefixes))
    THEN [triggered |-> TRUE,
          content |-> TrimSpace(TrimPrefix(content, Head(prefixes)))]
    ELSE prefixScan(content, Tail(prefixes))

checkGroupTrigger(content, isBotMentioned) ==
    IF isBotMentioned THEN [triggered |-> TRUE, content |-> TrimSpace(content)]
    ELSE prefixScan(content, config.GroupTriggerPrefix)

\* Variant: private messages go through the trigger classifier as well.
routeAllThroughTrigger(evt) ==
    IF evt.Content = <<>> \/ evt.MessageType \notin {"private", "group"} THEN <<>>
    ELSE LET t == checkGroupTrigger(evt.Content, evt.IsBotMentioned)
         IN IF t.triggered
            THEN << [senderID |-> evt.UserID,
                     chatID |-> IF evt.MessageType = "private"
                                THEN <<"private", evt.UserID>>
                                ELSE <<"group", evt.GroupID>>,
                     content |-> t.content, message_id |-> evt.MessageID] >>
            ELSE <<>>

\* handleMessage after the duplicate check: the call of HandleMessage it makes,
\* as a sequence holding that call, or empty when the event is dropped.
route(evt) ==
    IF evt.Content = <<>> THEN <<>>
    ELSE IF evt.MessageType = "private"
    THEN << [senderID |-> evt.UserID, chatID |-> <<"private", evt.UserID>>,
             content |-> evt.Content, message_id |-> evt.MessageID] >>
    ELSE IF evt.MessageType = "group"
    THEN LET t == checkGroupTrigger(evt.Content, evt.IsBotMentioned)
         IN IF t.triggered
            THEN << [senderID |-> evt.UserID, chatID |-> <<"group", evt.GroupID>>,
                     content |-> t.content, message_id |-> evt.MessageID] >>
            ELSE <<>>
    ELSE <<>>

\* Variant: the result of the duplicate check is not acted upon.
handleMessageNoSkip(evt) ==
    /\ isDuplicate(evt.MessageID)
    /\ Observe(evt.MessageID, isDuplicateRet(evt.MessageID))
    /\ bus' = bus \o route(evt)

\* Variant: an event that the filters drop does not reach the duplicate check.
handleMessageFilterFirst(evt) ==
    IF route(evt) = <<>>
    THEN UNCHANGED <<dedupVars, since, bus>>
    ELSE /\ isDuplicate(evt.MessageID)
         /\ Observe(evt.MessageID, isDuplicateRet(evt.MessageID))
         /\ bus' = IF isDuplicateRet(evt.MessageID) THEN bus ELSE bus \o route(evt)

\* handleMessage: a duplicate is dropped; anything else is recorded by
\* isDuplicate and then routed.
handleMessage(evt) ==
    /\ isDuplicate(evt.MessageID)
    /\ Observe(evt.MessageID, isDuplicateRet(evt.MessageID))
    /\ bus' = IF isDuplicateRet(evt.MessageID) THEN bus ELSE bus \o route(evt)

\* Variant: frames with an echo or a status payload are handled like any other.
ReachesNoSkip(raw) ==
    /\ raw.json
    /\ raw.post_type = "message"
    /\ normalizeOk(raw)

\* The frames listen skips (bad JSON, API responses) and handleRawEvent's
\* switch: only post_type "message" that normalizes reaches handleMessage.
Reaches(raw) ==
    /\ raw.json
    /\ ~(raw.echo # "" \/ raw.status.Online \/ raw.status.Good)
    /\ raw.post_type = "message"
    /\ normalizeOk(raw)

handleRawEvent(raw) ==
    IF Reaches(raw) THEN handleMessage(normalizeMessageEvent(raw))
    ELSE UNCHANGED <<dedupVars, since, bus>>

(* ------------------------------ sockets -------------------------------- *)
\* Sockets handed out so far; the next one dialed gets the next number.
nDialed == Cardinality({s \in SockIds : sock[s] # "unborn"})
OpenSocks == {s \in SockIds : sock[s] = "open"}

\* conn.Close() on c.conn, then c.conn = nil (the body of "if c.conn != nil").
CloseConn ==
    IF conn # Nil
    THEN /\ sock' = [sock EXCEPT ![conn] = "closed"]
         /\ conn' = Nil
    ELSE UNCHANGED <<sock, conn>>

\* connect, first half: dialer.Dial succeeds and returns a fresh open socket.
DialOk(s) ==
    /\ nDialed < MaxSockets
    /\ s = nDialed + 1
    /\ sock' = [sock EXCEPT ![s] = "open"]
    /\ peerUp' = [peerUp EXCEPT ![s] = TRUE]

\* Variant: a new connection starts with an empty dedup window.
StoreConnFreshWindow(s) ==
    /\ conn' = s
    /\ dedup' = {}
    /\ dedupRing' = [k \in 1..Len(dedupRing) |-> ""]
    /\ dedupIdx' = 0

\* connect, second half: c.mu.Lock(); c.conn = conn; c.mu.Unlock().
\* It writes c.conn and nothing else of the channel.
StoreConn(s) ==
    /\ conn' = s
    /\ UNCHANGED dedupVars

\* go c.listen(): a new listener goroutine, at the top of its loop.
nListeners == Cardinality({i \in SockIds : lisPc[i] # "unborn"})

\* Variant: the goroutine is not started.
GoListenNotStarted ==
    /\ nListeners < MaxSockets
    /\ UNCHANGED lisVars

GoListen ==
    /\ nListeners < MaxSockets
    /\ lisPc' = [lisPc EXCEPT ![nListeners + 1] = "select"]
    /\ UNCHANGED lisConn

\* The peer sends a frame on a socket it still holds.
PeerSend(s, f) ==
    /\ sock[s] = "open"
    /\ peerUp[s]
    /\ budget > 0
    /\ Len(inbox[s]) < MaxInbox
    /\ inbox' = [inbox EXCEPT ![s] = Append(@, f)]
    /\ budget' = budget - 1
    /\ UNCHANGED <<config, toolVars, handled, sendVars, running, ctx, dedupVars, conn, sock, peerUp, startVars,
                   rlVars, lisVars, stopVars, bus, probeVars, since>>

\* The peer goes away: reads on the socket fail from now on.  A drop is
\* modelled only while the dialer can still hand out a socket.
PeerDrop(s) ==
    /\ sock[s] # "unborn"
    /\ peerUp[s]
    /\ nDialed < MaxSockets
    /\ peerUp' = [peerUp EXCEPT ![s] = FALSE]
    /\ UNCHANGED <<config, toolVars, handled, sendVars, running, ctx, dedupVars, conn, sock, inbox, budget,
                   startVars, rlVars, lisVars, stopVars, bus, probeVars, since>>

(* ------------------------------ Start ---------------------------------- *)
\* The caller starts an adapter once, and does not start one it has stopped;
\* Start and Stop are called from the same task, one after the other.
StartBegin ==
    /\ startPc = "idle"
    /\ stopPc = "idle"
    /\ stopped = FALSE
    /\ IF config.WSUrl = ""
       THEN /\ startRet' = "err_no_url"
            /\ startPc' = "done"
            /\ ctx' = ctx
       ELSE /\ ctx' = "live"
            /\ startPc' = "dial"
            /\ startRet' = startRet
    /\ UNCHANGED <<config, toolVars, handled, sendVars, running, dedupVars, connVars, startConn, rlVars, lisVars,
                   stopVars, bus, probeVars, since>>

StartDialOk ==
    /\ startPc = "dial"
    /\ \E s \in SockIds :
         /\ DialOk(s)
         /\ startConn' = s
    /\ startPc' = "store"
    /\ UNCHANGED <<config, toolVars, handled, sendVars, running, ctx, dedupVars, conn, inbox, budget, startRet,
                   rlVars, lisVars, stopVars, bus, probeVars, since>>

StartDialFail ==
    /\ startPc = "dial"
    /\ startPc' = "reconnect"
    /\ UNCHANGED <<config, toolVars, handled, sendVars, running, ctx, dedupVars, connVars, startConn, startRet,
                   rlVars, lisVars, stopVars, bus, probeVars, since>>

StartStore ==
    /\ startPc = "store"
    /\ StoreConn(startConn)
    /\ startPc' = "listen"
    /\ UNCHANGED <<config, toolVars, handled, sendVars, running, ctx, sock, peerUp, inbox, budget,
                   startConn, startRet, rlVars, lisVars, stopVars, bus, probeVars,
                   since>>

StartListen ==
    /\ startPc = "listen"
    /\ GoListen
    /\ startPc' = "reconnect"
    /\ UNCHANGED <<config, toolVars, handled, sendVars, running, ctx, dedupVars, connVars, startConn, startRet,
                   rlVars, stopVars, bus, probeVars, since>>

\* Variant: with reconnection disabled Start goes on without looking at c.conn.
StartReconnectNoCheck ==
    /\ startPc = "reconnect"
    /\ rlPc' = IF config.ReconnectInterval > 0 THEN "wait" ELSE rlPc
    /\ startPc' = "run"
    /\ UNCHANGED <<config, toolVars, waited, handled, sendVars, running, ctx, dedupVars, connVars, startConn, startRet,
                   rlConn, lisVars, stopVars, bus, probeVars, since>>

\* Line 130 reads c.conn without holding c.mu while the listener just spawned
\* may write it under c.mu: the read sees the nil the listener has written,
\* or still the socket Start's own connect stored.
SeenByStart == IF conn = Nil /\ startConn # Nil THEN {Nil, startConn} ELSE {conn}

\* Lines 126-133: start the reconnect loop, or, with reconnection disabled,
\* fail when c.conn is nil.
StartReconnect ==
    /\ startPc = "reconnect"
    /\ IF config.ReconnectInterval > 0
       THEN /\ rlPc' = "wait"
            /\ startPc' = "run"
            /\ startRet' = startRet
       ELSE /\ rlPc' = rlPc
            /\ \E seen \in SeenByStart :
                 IF seen = Nil
                 THEN startPc' = "done" /\ startRet' = "err_no_conn"
                 ELSE startPc' = "run" /\ startRet' = startRet
    /\ UNCHANGED <<config, toolVars, waited, handled, sendVars, running, ctx, dedupVars, connVars, startConn, rlConn,
                   lisVars, stopVars, bus, probeVars, since>>

StartSetRunning ==
    /\ startPc = "run"
    /\ running' = TRUE
    /\ startRet' = "ok"
    /\ startPc' = "done"
    /\ UNCHANGED <<config, toolVars, handled, sendVars, ctx, dedupVars, connVars, startConn, rlVars, lisVars,
                   stopVars, bus, probeVars, since>>

(* ------------------------------ reconnectLoop -------------------------- *)
\* time.Second in units of the clock, and the 5 of lines 165-166.
Second == 4
FloorSeconds == 5

\* The value an int64 takes for the result x of a multiplication.
Wrap(x) == ((x - MinInt64) % (2 ^ IntBits)) + MinInt64

\* Lines 164-167: the interval of the loop, in units of the clock.
reconnectInterval(cfg) ==
    LET interval == Wrap(cfg.ReconnectInterval * Second)
    IN IF interval < FloorSeconds * Second THEN FloorSeconds * Second ELSE interval

\* Time goes by while the loop waits in its select; it is counted up to the
\* interval, where the timer fires.
TimePasses ==
    /\ timed
    /\ rlPc = "wait"
    /\ waited < reconnectInterval(config)
    /\ waited' = waited + 1
    /\ UNCHANGED <<config, toolVars, handled, sendVars, running, ctx, dedupVars, connVars,
                   startVars, rlPc, rlConn, lisVars, stopVars, bus, probeVars, since>>

\* select: the timer of time.After(interval) fires while the context is live.
\* In a run that does not track time it fires at any moment.
RLTick ==
    /\ rlPc = "wait"
    /\ ctx # "cancelled"
    /\ timed => waited >= reconnectInterval(config)
    /\ rlPc' = "observe"
    /\ waited' = 0
    /\ UNCHANGED <<config, toolVars, handled, sendVars, running, ctx, dedupVars, connVars, startVars, rlConn,
                   lisVars, stopVars, bus, probeVars, since>>

\* select: <-c.ctx.Done()
RLCancelled ==
    /\ rlPc = "wait"
    /\ ctx = "cancelled"
    /\ rlPc' = "done"
    /\ UNCHANGED <<config, toolVars, waited, handled, sendVars, running, ctx, dedupVars, connVars, startVars, rlConn,
                   lisVars, stopVars, bus, probeVars, since>>

\* Variant: the loop connects on every tick, whatever c.conn holds.
RLObserveAlways ==
    /\ rlPc = "observe"
    /\ rlConn' = Nil
    /\ rlPc' = "dial"
    /\ UNCHANGED <<config, toolVars, waited, handled, sendVars, running, ctx, dedupVars, connVars, startVars, lisVars,
                   stopVars, bus, probeVars, since>>

\* Lines 174-178: read c.conn under the lock; connect only if it is nil.
RLObserve ==
    /\ rlPc = "observe"
    /\ rlConn' = conn
    /\ rlPc' = IF conn = Nil THEN "dial" ELSE "wait"
    /\ UNCHANGED <<config, toolVars, waited, handled, sendVars, running, ctx, dedupVars, connVars, startVars, lisVars,
                   stopVars, bus, probeVars, since>>

RLDialOk ==
    /\ rlPc = "dial"
    /\ \E s \in SockIds :
         /\ DialOk(s)
         /\ rlConn' = s
    /\ rlPc' = "store"
    /\ UNCHANGED <<config, toolVars, waited, handled, sendVars, running, ctx, dedupVars, conn, inbox, budget, startVars,
                   lisVars, stopVars, bus, probeVars, since>>

RLDialFail ==
    /\ rlPc = "dial"
    /\ rlPc' = "wait"
    /\ UNCHANGED <<config, toolVars, waited, handled, sendVars, running, ctx, dedupVars, connVars, startVars, rlConn,
                   lisVars, stopVars, bus, probeVars, since>>

RLStore ==
    /\ rlPc = "store"
    /\ StoreConn(rlConn)
    /\ rlPc' = "listen"
    /\ UNCHANGED <<config, toolVars, waited, handled, sendVars, running, ctx, sock, peerUp, inbox, budget,
                   startVars, rlConn, lisVars, stopVars, bus, probeVars, since>>

RLListen ==
    /\ rlPc = "listen"
    /\ GoListen
    /\ rlPc' = "wait"
    /\ UNCHANGED <<config, toolVars, waited, handled, sendVars, running, ctx, dedupVars, connVars, startVars, rlConn,
                   stopVars, bus, probeVars, since>>

(* ------------------------------ listen --------------------------------- *)
\* select { case <-c.ctx.Done(): return; default: ... }
ListenSelect(i) ==
    /\ lisPc[i] = "select"
    /\ lisPc' = [lisPc EXCEPT ![i] = IF ctx = "cancelled" THEN "done" ELSE "snap"]
    /\ UNCHANGED <<config, toolVars, handled, sendVars, running, ctx, dedupVars, connVars, startVars, rlVars,
                   lisConn, stopVars, bus, probeVars, since>>

\* Lines 300-307: conn := c.conn under the lock; exit if nil.
ListenSnap(i) ==
    /\ lisPc[i] = "snap"
    /\ lisConn' = [lisConn EXCEPT ![i] = conn]
    /\ lisPc' = [lisPc EXCEPT ![i] = IF conn = Nil THEN "done" ELSE "read"]
    /\ UNCHANGED <<config, toolVars, handled, sendVars, running, ctx, dedupVars, connVars, startVars, rlVars,
                   stopVars, bus, probeVars, since>>

\* Variant: a frame that does not parse ends the listener like a read error.
ListenFrameStrict(i) ==
    /\ lisPc[i] = "read"
    /\ sock[lisConn[i]] = "open"
    /\ inbox[lisConn[i]] # <<>>
    /\ inbox' = [inbox EXCEPT ![lisConn[i]] = Tail(@)]
    /\ handleRawEvent(Head(inbox[lisConn[i]]))
    /\ handled' = Head(inbox[lisConn[i]])
    /\ lisPc' = [lisPc EXCEPT ![i] = IF Head(inbox[lisConn[i]]).json THEN "select"
                                     ELSE "teardown"]
    /\ UNCHANGED <<config, toolVars, sendVars, running, ctx, conn, sock, peerUp, budget, startVars,
                   rlVars, lisConn, stopVars, probeVars>>

\* conn.ReadMessage() returns the oldest unread frame, which is handled before
\* the next read.
ListenFrame(i) ==
    /\ lisPc[i] = "read"
    /\ sock[lisConn[i]] = "open"
    /\ inbox[lisConn[i]] # <<>>
    /\ inbox' = [inbox EXCEPT ![lisConn[i]] = Tail(@)]
    /\ handleRawEvent(Head(inbox[lisConn[i]]))
    /\ handled' = Head(inbox[lisConn[i]])
    /\ lisPc' = [lisPc EXCEPT ![i] = "select"]
    /\ UNCHANGED <<config, toolVars, sendVars, running, ctx, conn, sock, peerUp, budget, startVars,
                   rlVars, lisConn, stopVars, probeVars>>

\* conn.ReadMessage() fails: the socket was closed here, or the peer is gone.
ListenReadErr(i) ==
    /\ lisPc[i] = "read"
    /\ sock[lisConn[i]] = "closed" \/ ~peerUp[lisConn[i]]
    /\ lisPc' = [lisPc EXCEPT ![i] = "teardown"]
    /\ UNCHANGED <<config, toolVars, handled, sendVars, running, ctx, dedupVars, connVars, startVars, rlVars,
                   lisConn, stopVars, bus, probeVars, since>>

\* Variant: the listener closes the socket but leaves it in c.conn.
ListenTeardownKeepsConn(i) ==
    /\ lisPc[i] = "teardown"
    /\ sock' = IF conn # Nil THEN [sock EXCEPT ![conn] = "closed"] ELSE sock
    /\ lisPc' = [lisPc EXCEPT ![i] = "done"]
    /\ UNCHANGED <<config, toolVars, handled, sendVars, running, ctx, dedupVars, conn, peerUp, inbox, budget,
                   startVars, rlVars, lisConn, stopVars, bus, probeVars, since>>

\* Variant: the listener clears c.conn without closing the socket.
ListenTeardownNoClose(i) ==
    /\ lisPc[i] = "teardown"
    /\ conn' = Nil
    /\ lisPc' = [lisPc EXCEPT ![i] = "done"]
    /\ UNCHANGED <<config, toolVars, handled, sendVars, running, ctx, dedupVars, sock, peerUp, inbox, budget,
                   startVars, rlVars, lisConn, stopVars, bus, probeVars, since>>

\* Variant: after the teardown the listener goes round its loop again.
ListenTeardownLoopsOn(i) ==
    /\ lisPc[i] = "teardown"
    /\ CloseConn
    /\ lisPc' = [lisPc EXCEPT ![i] = "select"]
    /\ UNCHANGED <<config, toolVars, handled, sendVars, running, ctx, dedupVars, peerUp, inbox, budget,
                   startVars, rlVars, lisConn, stopVars, bus, probeVars, since>>

\* Lines 314-320: under the lock, close and clear c.conn if set; return.
ListenTeardown(i) ==
    /\ lisPc[i] = "teardown"
    /\ CloseConn
    /\ lisPc' = [lisPc EXCEPT ![i] = "done"]
    /\ UNCHANGED <<config, toolVars, handled, sendVars, running, ctx, dedupVars, peerUp, inbox, budget,
                   startVars, rlVars, lisConn, stopVars, bus, probeVars, since>>

(* ------------------------------ Stop ----------------------------------- *)
StopSetRunning ==
    /\ stopPc = "idle"
    /\ startPc \in {"idle", "done"}
    /\ running' = FALSE
    /\ stopPc' = "cancel"
    /\ UNCHANGED <<config, toolVars, handled, sendVars, ctx, dedupVars, connVars, startVars, rlVars, lisVars,
                   stopped, bus, probeVars, since>>

\* if c.cancel != nil { c.cancel() }
StopCancel ==
    /\ stopPc = "cancel"
    /\ ctx' = IF ctx = "nil" THEN "nil" ELSE "cancelled"
    /\ stopPc' = "close"
    /\ UNCHANGED <<config, toolVars, handled, sendVars, running, dedupVars, connVars, startVars, rlVars, lisVars,
                   stopped, bus, probeVars, since>>

\* Lines 200-207: under the lock, close and clear c.conn if set; return nil.
StopClose ==
    /\ stopPc = "close"
    /\ CloseConn
    /\ stopPc' = "idle"
    /\ stopped' = TRUE
    /\ UNCHANGED <<config, toolVars, handled, sendVars, running, ctx, dedupVars, peerUp, inbox, budget,
                   startVars, rlVars, lisVars, bus, probeVars, since>>

(* ------------------------------ Send ----------------------------------- *)
\* msg.ChatID as a sequence of characters.
GroupPfx == <<"g", "r", "o", "u", "p", ":">>
PrivatePfx == <<"p", "r", "i", "v", "a", "t", "e", ":">>

\* Variant: a bare number addresses a group.
buildSendRequestGroupDefault(chatID) ==
    IF Len(chatID) > 8 /\ SubSeq(chatID, 1, 8) = PrivatePfx
    THEN LET r == ParseInt(SubSeq(chatID, 9, Len(chatID)))
         IN [err |-> r.err,
             req |-> IF r.err THEN NoReq ELSE [action |-> "send_private_msg", id |-> r.n]]
    ELSE LET r == ParseInt(IF Len(chatID) > 6 /\ SubSeq(chatID, 1, 6) = GroupPfx
                           THEN SubSeq(chatID, 7, Len(chatID)) ELSE chatID)
         IN [err |-> r.err,
             req |-> IF r.err THEN NoReq ELSE [action |-> "send_group_msg", id |-> r.n]]

\* buildSendRequest: "group:<n>", "private:<n>", or a bare <n>.
buildSendRequest(chatID) ==
    IF Len(chatID) > 6 /\ SubSeq(chatID, 1, 6) = GroupPfx
    THEN LET r == ParseInt(SubSeq(chatID, 7, Len(chatID)))
         IN [err |-> r.err,
             req |-> IF r.err THEN NoReq ELSE [action |-> "send_group_msg", id |-> r.n]]
    ELSE IF Len(chatID) > 8 /\ SubSeq(chatID, 1, 8) = PrivatePfx
    THEN LET r == ParseInt(SubSeq(chatID, 9, Len(chatID)))
         IN [err |-> r.err,
             req |-> IF r.err THEN NoReq ELSE [action |-> "send_private_msg", id |-> r.n]]
    ELSE LET r == ParseInt(chatID)
         IN [err |-> r.err,
             req |-> IF r.err THEN NoReq ELSE [action |-> "send_private_msg", id |-> r.n]]

\* The chat ids the callers pass to Send.
ChatIds ==
    {GroupPfx \o <<"-", "3">>, PrivatePfx \o <<"4", "2">>, <<"4", "2">>,
     GroupPfx, PrivatePfx, GroupPfx \o <<"4", "x">>, PrivatePfx \o <<"x">>,
     <<"x">>, <<>>}

\* Send returns: the caller's locals go away.
SendReturn(p, ret) ==
    /\ sendRet' = ret
    /\ sendPc' = [sendPc EXCEPT ![p] = "idle"]
    /\ sendConn' = [sendConn EXCEPT ![p] = Nil]
    /\ sendReq' = [sendReq EXCEPT ![p] = NoReq]
    /\ sendEcho' = [sendEcho EXCEPT ![p] = 0]

\* Variant: Send does not look at the running flag.
SendCallNoRunningCheck(p) ==
    /\ sendPc[p] = "idle"
    /\ sendsLeft > 0
    /\ sendsLeft' = sendsLeft - 1
    /\ sendPc' = [sendPc EXCEPT ![p] = "snap"]
    /\ UNCHANGED <<sendConn, sendReq, sendEcho, sendRet>>
    /\ UNCHANGED <<config, toolVars, handled, running, ctx, dedupVars, connVars, startVars, rlVars,
                   lisVars, stopVars, bus, probeVars, since, echoCounter, writeMu,
                   wire, echoes>>

\* Lines 210-213: a call of Send; not running is an error.
SendCall(p) ==
    /\ sendPc[p] = "idle"
    /\ sendsLeft > 0
    /\ sendsLeft' = sendsLeft - 1
    /\ IF ~running
       THEN SendReturn(p, "err_not_running")
       ELSE /\ sendPc' = [sendPc EXCEPT ![p] = "snap"]
            /\ UNCHANGED <<sendConn, sendReq, sendEcho, sendRet>>
    /\ UNCHANGED <<config, toolVars, handled, running, ctx, dedupVars, connVars, startVars, rlVars,
                   lisVars, stopVars, bus, probeVars, since, echoCounter, writeMu,
                   wire, echoes>>

\* Lines 215-226: conn := c.conn under the lock; nil is an error; then
\* buildSendRequest on msg.ChatID, whose error is returned.
SendSnap(p, chatID) ==
    /\ sendPc[p] = "snap"
    /\ IF conn = Nil
       THEN SendReturn(p, "err_not_connected")
       ELSE IF buildSendRequest(chatID).err
       THEN SendReturn(p, "err_invalid")
       ELSE /\ sendConn' = [sendConn EXCEPT ![p] = conn]
            /\ sendReq' = [sendReq EXCEPT ![p] = buildSendRequest(chatID).req]
            /\ sendPc' = [sendPc EXCEPT ![p] = "echo"]
            /\ UNCHANGED <<sendEcho, sendRet>>
    /\ UNCHANGED <<config, toolVars, handled, running, ctx, dedupVars, connVars, startVars, rlVars,
                   lisVars, stopVars, bus, probeVars, since, echoCounter, writeMu,
                   sendsLeft, wire, echoes>>

\* Variant: the echo is taken from the counter without advancing it.
SendEchoStale(p) ==
    /\ sendPc[p] = "echo"
    /\ writeMu = 0
    /\ sendEcho' = [sendEcho EXCEPT ![p] = echoCounter]
    /\ echoes' = Append(echoes, echoCounter)
    /\ sendPc' = [sendPc EXCEPT ![p] = "write"]
    /\ UNCHANGED <<config, toolVars, handled, running, ctx, dedupVars, connVars, startVars, rlVars,
                   lisVars, stopVars, bus, probeVars, since, echoCounter, writeMu,
                   sendConn, sendReq, sendRet, sendsLeft, wire>>

\* Lines 228-231: under writeMu, c.echoCounter++ and echo := "send_<counter>".
SendEcho(p) ==
    /\ sendPc[p] = "echo"
    /\ writeMu = 0
    /\ echoCounter' = echoCounter + 1
    /\ sendEcho' = [sendEcho EXCEPT ![p] = echoCounter + 1]
    /\ echoes' = Append(echoes, echoCounter + 1)
    /\ sendPc' = [sendPc EXCEPT ![p] = "write"]
    /\ UNCHANGED <<config, toolVars, handled, running, ctx, dedupVars, connVars, startVars, rlVars,
                   lisVars, stopVars, bus, probeVars, since, writeMu,
                   sendConn, sendReq, sendRet, sendsLeft, wire>>

\* One half of a frame on the wire.
Half(p, half) ==
    [by |-> p, half |-> half, conn |-> sendConn[p], echo |-> sendEcho[p]]

\* A socket on which a write has failed: the websocket library keeps the error
\* of a failed write with the connection and fails every later write on it
\* before anything is written.
Broken(s) == \E k \in 1..Len(wire) : wire[k].conn = s /\ wire[k].half = "error"

\* The socket takes what is written to it.
Writable(s) == sock[s] = "open" /\ ~Broken(s)

\* Variant: the write starts without taking writeMu.
SendWriteBeginUnlocked(p) ==
    /\ sendPc[p] = "write"
    /\ wire' = IF Writable(sendConn[p]) THEN Append(wire, Half(p, "head")) ELSE wire
    /\ sendPc' = [sendPc EXCEPT ![p] = "writing"]
    /\ UNCHANGED <<config, toolVars, handled, running, ctx, dedupVars, connVars, startVars, rlVars,
                   lisVars, stopVars, bus, probeVars, since, echoCounter, writeMu,
                   sendConn, sendReq, sendEcho, sendRet, sendsLeft, echoes>>

\* Lines 244-245: c.writeMu.Lock(); conn.WriteMessage starts writing the frame.
SendWriteBegin(p) ==
    /\ sendPc[p] = "write"
    /\ writeMu = 0
    /\ writeMu' = p
    /\ wire' = IF Writable(sendConn[p]) THEN Append(wire, Half(p, "head")) ELSE wire
    /\ sendPc' = [sendPc EXCEPT ![p] = "writing"]
    /\ UNCHANGED <<config, toolVars, handled, running, ctx, dedupVars, connVars, startVars, rlVars,
                   lisVars, stopVars, bus, probeVars, since, echoCounter,
                   sendConn, sendReq, sendEcho, sendRet, sendsLeft, echoes>>

\* Lines 245-255: WriteMessage returns: nil if the socket is still open here
\* (the peer having gone away, the transport may still take the frame), an
\* error if the socket was closed, if a write has failed on it before, or if
\* the peer has gone away, the frame then being cut short on the wire; then
\* c.writeMu.Unlock(), and the result is returned.  Nothing else is done on an
\* error: the socket and c.conn are left as they are.
SendWriteEnd(p) ==
    /\ sendPc[p] = "writing"
    /\ writeMu' = IF writeMu = p THEN 0 ELSE writeMu
    /\ \/ /\ Writable(sendConn[p])
          /\ wire' = Append(wire, Half(p, "tail"))
          /\ SendReturn(p, "ok")
       \/ /\ ~Writable(sendConn[p]) \/ ~peerUp[sendConn[p]]
          /\ wire' = IF Writable(sendConn[p]) THEN Append(wire, Half(p, "error")) ELSE wire
          /\ SendReturn(p, "err_write")
    /\ UNCHANGED <<config, toolVars, handled, running, ctx, dedupVars, connVars, startVars, rlVars,
                   lisVars, stopVars, bus, probeVars, since, echoCounter,
                   sendsLeft, echoes>>

\* The callers of Send.
Outbound ==
    \E p \in Senders :
       \/ SendCall(p)
       \/ \E chatID \in ChatIds : SendSnap(p, chatID)
       \/ SendEcho(p) \/ SendWriteBegin(p) \/ SendWriteEnd(p)

(* ------------------------------ the adapter ---------------------------- *)
\* The connection lifecycle: Start, the reconnect loop, the listeners' loop
\* control, Stop, and the peer going away.
Lifecycle ==
    \/ StartBegin \/ StartDialOk \/ StartDialFail \/ StartStore \/ StartListen
    \/ StartReconnect \/ StartSetRunning
    \/ RLTick \/ RLCancelled \/ RLObserve \/ RLDialOk \/ RLDialFail \/ RLStore
    \/ RLListen
    \/ \E i \in SockIds :
         \/ ListenSelect(i) \/ ListenSnap(i)
         \/ ListenReadErr(i) \/ ListenTeardown(i)
    \/ StopSetRunning \/ StopCancel \/ StopClose
    \/ \E s \in SockIds : PeerDrop(s)

\* The inbound path: the peer sends frames, the listeners handle them.
Inbound ==
    \/ \E s \in SockIds, f \in Frames : PeerSend(s, f)
    \/ \E i \in SockIds : ListenFrame(i)

Next == Lifecycle \/ Inbound

Spec == Init /\ [][Next]_vars

\* Scheduling: every goroutine that can take a step eventually takes it; a
\* call of Dial returns; a read returns when a frame is there, or when the
\* socket is closed or the peer is gone; and dialing succeeds eventually when
\* it is tried again and again.  Nothing is assumed of the caller of Stop or
\* of the peer.
Fairness ==
    /\ WF_vars(StartBegin \/ StartDialOk \/ StartDialFail \/ StartStore
                 \/ StartListen \/ StartReconnect \/ StartSetRunning)
    /\ WF_vars(RLTick) /\ WF_vars(RLCancelled) /\ WF_vars(RLObserve)
    /\ WF_vars(RLDialOk \/ RLDialFail) /\ SF_vars(RLDialOk)
    /\ WF_vars(RLStore) /\ WF_vars(RLListen)
    /\ \A i \in SockIds :
         /\ WF_vars(ListenSelect(i)) /\ WF_vars(ListenSnap(i))
         /\ WF_vars(ListenFrame(i)) /\ WF_vars(ListenReadErr(i))
         /\ WF_vars(ListenTeardown(i))

\* An adapter configured with an endpoint and reconnection, and a peer that
\* sends at most one frame.
InitLive ==
    /\ InitWith(1)
    /\ config.WSUrl # ""
    /\ config.ReconnectInterval > 0

SpecLive == InitLive /\ [][Next]_vars /\ Fairness

\* The outbound path: callers of Send running alongside the connection
\* lifecycle, with a peer that sends nothing.
InitSend ==
    /\ InitWith(0)
    /\ config.WSUrl # ""
    /\ config.ReconnectInterval > 0

NextSend == Lifecycle \/ Outbound

SpecSend == InitSend /\ [][NextSend]_vars

(* ------------------------------ the inbound path on its own ------------ *)
\* Frames of every kind listen and handleRawEvent tell apart.
InboundFrames ==
    {PrivateFrame(id) : id \in AllIds}
      \cup ScopeFrames \cup ControlFrames
      \cup {BadJson,
            Frame(TRUE, "", "meta_event", "", "", Absent, Absent, Num(1), <<>>, NoMessage)}

\* listen's loop body applied to one frame, without a socket.
HandleDirect(f) ==
    /\ budget > 0
    /\ budget' = budget - 1
    /\ handleRawEvent(f)
    /\ handled' = f
    /\ UNCHANGED <<config, toolVars, sendVars, running, ctx, conn, sock, peerUp, inbox, startVars,
                   rlVars, lisVars, stopVars, probeVars>>

\* A caller applies isDuplicate to any id, and frames are handled one by one.
NextDedup ==
    \/ \E messageID \in AllIds : CallIsDuplicate(messageID)
    \/ \E f \in InboundFrames : HandleDirect(f)

\* Two frames are enough here: the window itself is driven by the direct calls.
InitDedup ==
    /\ InitWith(2)
    /\ config.WSUrl # ""
    /\ config.ReconnectInterval > 0

SpecDedup == InitDedup /\ [][NextDedup]_vars

\* checkGroupTrigger on its own: prefix lists with one prefix, with an empty
\* prefix first, with two prefixes of which one starts the other in either
\* order, with none, and contents that match, do not match, and carry spaces.
Bot == <<"!", "b", "o", "t", " ">>
PrefixLists ==
    { <<Bot>>, << <<>>, Bot >>, << <<"!">>, Bot >>, << Bot, <<"!">> >>, <<>>,
      << <<"/">>, <<"!">> >> }
Contents ==
    { <<"!", "b", "o", "t", " ", "h", "e", "l", "l", "o">>,
      <<"h", "e", "l", "l", "o">>,
      <<"!", "b", "o", "t", " ", " ", "h", "i", " ">>,
      <<" ", "!", "b", "o", "t", " ", "h", "i">>,
      <<"!", "h", "i">>,
      <<"!", "b", "o", "t", " ">>,
      <<"!", "b", "o", "t", " ", "!", "b", "o", "t", " ", "x">>,
      <<" ", "h", "i", " ">>,
      <<"/", "x">>,
      <<"!">>, <<>> }

InitTrigger ==
    /\ InitOf([WSUrl : {"ws://gw"}, ReconnectInterval : {5},
               GroupTriggerPrefix : PrefixLists], 0)
    /\ timed = FALSE
    /\ tool = NoTool
    /\ fs = NoFiles

\* A caller applies checkGroupTrigger and keeps both results.
CallCheckGroupTrigger(content, isBotMentioned) ==
    /\ trig' = [called |-> TRUE, content |-> content, isBotMentioned |-> isBotMentioned,
                triggered |-> checkGroupTrigger(content, isBotMentioned).triggered,
                strippedContent |-> checkGroupTrigger(content, isBotMentioned).content]
    /\ UNCHANGED <<config, toolVars, handled, sendVars, running, ctx, dedupVars, connVars,
                   startVars, rlVars, lisVars, stopVars, bus, dupId, dupRet, since>>

NextTrigger ==
    \E content \in Contents, isBotMentioned \in BOOLEAN :
       CallCheckGroupTrigger(content, isBotMentioned)

SpecTrigger == InitTrigger /\ [][NextTrigger]_vars

\* The listeners fed with frames that are dispatched, dropped as duplicates,
\* discarded, ignored, or not JSON at all: two frames in a run.
ListenerFrames ==
    {BadJson, PrivateFrame(IdPool[1]), PrivateFrame(IdPool[2]), EchoFrame,
     StatusFrame(TRUE, FALSE), PostFrame("notice"), GroupFrame(IdPool[1], <<"h">>)}

InitInbound ==
    /\ InitWith(2)
    /\ config.WSUrl # ""
    /\ config.ReconnectInterval > 0

NextInbound ==
    \/ Lifecycle
    \/ \E s \in SockIds, f \in ListenerFrames : PeerSend(s, f)
    \/ \E i \in SockIds : ListenFrame(i)

SpecInbound == InitInbound /\ [][NextInbound]_vars

(* ------------------------------ the dedup window ----------------------- *)
RingIds == {dedupRing[k] : k \in 1..Len(dedupRing)} \ {""}
NonEmptySlots == {k \in 1..Len(dedupRing) : dedupRing[k] # ""}
\* The id in the window that was recorded longest ago.
Oldest == CHOOSE y \in dedup : \A z \in dedup : since[z] <= since[y]

\* C2: a call of isDuplicate on a recordable id x returns true exactly when x
\* has been recorded (a call on it returned false) and fewer than DedupSize
\* other ids have been recorded since; after DedupSize such recordings it
\* returns false again.  A call that returns true changes neither the set, nor
\* the ring, nor the cursor.
C2_LastNRemembered ==
    [][\A x \in AllIds :
         CallIsDuplicate(x) =>
           /\ x \in RecIds => (dupRet' <=> since[x] < DedupSize)
           /\ dupRet' => UNCHANGED dedupVars]_vars

\* An eviction has happened, and the last call found its id still in the
\* window as the oldest entry.
C2_Witness ==
    /\ Cardinality(dedup) = DedupSize
    /\ dedupIdx = 1
    /\ dupId \in RecIds
    /\ dupRet
    /\ since[dupId] = DedupSize - 1

\* C3, the state part: the set is exactly the non-empty ring slots, no id is
\* in two slots, the sizes agree and stay within the capacity, the cursor is
\* within 0..capacity-1.
C3_SetIsRing ==
    /\ dedup = RingIds
    /\ \A j, k \in NonEmptySlots : dedupRing[j] = dedupRing[k] => j = k
    /\ Cardinality(dedup) = Cardinality(NonEmptySlots)
    /\ Cardinality(dedup) <= DedupSize
    /\ Len(dedupRing) = DedupSize
    /\ dedupIdx \in 0..(DedupSize - 1)

\* C3: the state part holds in every reachable state, and a step that records
\* an id in a full window removes the oldest recorded id from the set and
\* from the ring in that same step.
C3_WindowInvariant ==
    /\ []C3_SetIsRing
    /\ [][(Cardinality(dedup) = DedupSize /\ dedup' # dedup) =>
            /\ Oldest \notin dedup'
            /\ Oldest \notin RingIds'
            /\ dedup \ {Oldest} \subseteq dedup'
            /\ Cardinality(dedup' \ dedup) = 1]_vars

\* A full window whose first slot has been overwritten.
C3_Witness ==
    /\ NonEmptySlots = 1..DedupSize
    /\ dedupIdx = 1
    /\ \E y \in RecIds : y \notin dedup /\ since[y] = DedupSize

\* C4: a call of isDuplicate on "" or "0" returns false and leaves the set,
\* the ring and the cursor as they were; a message event carrying such an id
\* is routed like a first delivery every time.
C4_NoIdNeverDeduplicated ==
    /\ [][\A x \in {"", "0"} :
            CallIsDuplicate(x) => (~dupRet' /\ UNCHANGED dedupVars)]_vars
    /\ [][\A f \in InboundFrames :
            (HandleDirect(f) /\ f.message_id \in {"", "0"} /\ Reaches(f)) =>
              /\ UNCHANGED dedupVars
              /\ bus' = bus \o route(normalizeMessageEvent(f))
              /\ Len(bus') = Len(bus) + 1]_vars

\* "0" was called on a non-empty window, and two events with id "0" were both
\* routed.
C4_Witness ==
    /\ dupId = "0"
    /\ ~dupRet
    /\ dedup # {}
    /\ Len(bus) = 2
    /\ bus[1].message_id = "0"
    /\ bus[2].message_id = "0"

(* ------------------------------ dispatch ------------------------------- *)
\* This step calls HandleMessage for message id x.
Dispatched(x) ==
    /\ Len(bus') = Len(bus) + 1
    /\ bus'[Len(bus')].message_id = x

\* The frame listener i is about to take from its socket.
NextFrame(i) == Head(inbox[lisConn[i]])

C5_OneSocket ==
    /\ Cardinality(OpenSocks) <= 1
    /\ \A s \in OpenSocks :
         \/ conn = s
         \/ startPc = "store" /\ startConn = s
         \/ rlPc = "store" /\ rlConn = s
    /\ rlPc = "dial" => rlConn = Nil

\* C5: the state part holds in every reachable state; the loop's dial follows
\* an observation of nil; and after a successful connect the loop's next step
\* starts a new listener.
C5_ExactlyOneLiveSocket ==
    /\ []C5_OneSocket
    /\ [][(RLDialOk \/ RLDialFail) => (rlConn = Nil /\ conn = Nil)]_vars
    /\ [][(rlPc = "listen" /\ rlPc' # "listen") =>
            /\ nListeners' = nListeners + 1
            /\ lisPc'[nListeners + 1] = "select"]_vars

\* The first socket is closed and the loop's second one is live in c.conn.
C5_Witness ==
    /\ sock[1] = "closed"
    /\ sock[2] = "open"
    /\ conn = 2
    /\ rlPc = "listen"

\* C6: once a call of Stop has returned, c.conn is nil and no socket is open.
C6_StopIsTerminal == stopped => (conn = Nil /\ OpenSocks = {})

\* A step of Stop.
StopStep == StopSetRunning \/ StopCancel \/ StopClose

\* C7, the postcondition: when Stop returns the adapter is not running, the
\* context (if Start made one) is cancelled, c.conn is nil and the socket it
\* held is closed.
C7_StopPostcondition ==
    [][StopClose =>
         /\ ~running'
         /\ ctx' # "live"
         /\ conn' = Nil
         /\ conn # Nil => sock'[conn] = "closed"]_vars

\* C7: the postcondition, and a call of Stop after an earlier one has
\* returned, or on an adapter never started, changes nothing.
C7_StopIdempotent ==
    /\ C7_StopPostcondition
    /\ [][((stopped \/ startPc = "idle") /\ StopStep) =>
            UNCHANGED <<running, ctx, conn, sock>>]_vars

(* ------------------------------ reconnects ----------------------------- *)
\* A step of connect, of the reconnect loop, of a listener's exit, or of Stop.
ConnectionStep ==
    \/ StartDialOk \/ StartDialFail \/ StartStore \/ StartListen
    \/ RLTick \/ RLCancelled \/ RLObserve \/ RLDialOk \/ RLDialFail \/ RLStore
    \/ RLListen
    \/ \E i \in SockIds : ListenReadErr(i) \/ ListenTeardown(i)
    \/ StopStep

\* C10: connect, the reconnect loop, a listener's teardown and Stop leave the
\* set, the ring and the cursor as they are; and a frame whose id is in the
\* window is reported duplicate (nothing dispatched, nothing recorded) on
\* whichever socket it arrives.
C10_DedupSurvivesReconnect ==
    /\ [][ConnectionStep => UNCHANGED dedupVars]_vars
    /\ [][\A i \in SockIds :
            (ListenFrame(i) /\ NextFrame(i).message_id \in dedup) =>
              (bus' = bus /\ UNCHANGED dedupVars)]_vars

\* The first socket is gone, the loop has stored the second, no listener has
\* read from it yet, and the frame waiting on it carries an id recorded
\* before the drop.
C10_Witness ==
    /\ sock[1] = "closed"
    /\ conn = 2
    /\ lisPc[2] = "unborn"
    /\ lisPc[1] = "done"
    /\ stopPc = "idle"
    /\ ~stopped
    /\ inbox[2] # <<>>
    /\ Head(inbox[2]).message_id \in dedup

(* ------------------------------ progress ------------------------------- *)
\* The reconnect loop and every listener have returned (or never ran).
TasksDone ==
    /\ rlPc \in {"off", "done"}
    /\ \A i \in SockIds : lisPc[i] \in {"unborn", "done"}

\* C8: once Stop has returned, eventually the reconnect loop and every
\* listener have returned.
C8_TasksTerminate == stopped ~> TasksDone

StopCalled == stopPc # "idle" \/ stopped

\* c.conn holds an open socket and a listener is reading from it.
Connected ==
    /\ conn # Nil
    /\ sock[conn] = "open"
    /\ \E j \in SockIds : lisPc[j] = "read" /\ lisConn[j] = conn

\* C9: with reconnection enabled and Stop not called, whenever a listener has
\* taken its read-error path, eventually c.conn holds an open socket with a
\* listener reading from it (or Stop is called); and a frame read from any
\* socket is routed by the window's content and the frame alone.
C9_RecoversAfterDrop ==
    /\ \A i \in SockIds :
         [](lisPc[i] = "teardown" /\ ~StopCalled => <>(Connected \/ StopCalled))
    /\ [][\A i \in SockIds :
            ListenFrame(i) =>
              bus' = IF NextFrame(i).message_id \in dedup THEN bus
                     ELSE bus \o route(normalizeMessageEvent(NextFrame(i)))]_vars

\* After a drop of the first socket the second is live, with the second
\* listener reading from it and the first one gone.
C9_Witness ==
    /\ ~StopCalled
    /\ ~peerUp[1]
    /\ sock[1] = "closed"
    /\ lisPc[1] = "done"
    /\ conn = 2
    /\ sock[2] = "open"
    /\ lisPc[2] = "read"
    /\ lisConn[2] = 2

(* ------------------------------ the listener's exit -------------------- *)
\* A step of listener i.
ListenStep(i) ==
    \/ ListenSelect(i) \/ ListenSnap(i) \/ ListenFrame(i)
    \/ ListenReadErr(i) \/ ListenTeardown(i)

\* C11: a listener whose read failed goes to its teardown and nowhere else;
\* the teardown leaves c.conn nil, the listener's socket closed and the
\* listener returned; no listener step dials or stores a socket; c.conn gets
\* a socket only from connect, called by Start or by the reconnect loop.
C11_ReadErrorTearsDown ==
    /\ [][\A i \in SockIds :
            /\ ListenReadErr(i) => lisPc'[i] = "teardown" /\ UNCHANGED <<conn, sock>>
            /\ lisPc[i] = "teardown" /\ lisPc'[i] # "teardown" =>
                 /\ lisPc'[i] = "done"
                 /\ conn' = Nil
                 /\ sock'[lisConn[i]] = "closed"
            /\ ListenStep(i) =>
                 /\ \A s \in SockIds : sock[s] = "unborn" => sock'[s] = "unborn"
                 /\ conn' \in {conn, Nil}]_vars
    /\ [][conn' # conn /\ conn' # Nil => StartStore \/ RLStore]_vars

\* The peer dropped the first socket, its listener closed it, cleared c.conn
\* and returned; nobody called Stop and nothing was dialed since.
C11_Witness ==
    /\ ~StopCalled
    /\ ~peerUp[1]
    /\ sock[1] = "closed"
    /\ lisPc[1] = "done"
    /\ conn = Nil
    /\ sock[2] = "unborn"

(* ------------------------------ Start's outcomes ----------------------- *)
\* Start has returned an error.
StartFailed == startPc = "done" /\ startRet \in {"err_no_url", "err_no_conn"}

\* C12: Start with an empty endpoint returns an error at once; Start whose
\* connect failed returns an error when reconnection is disabled, and with
\* reconnection enabled starts the reconnect loop with c.conn nil and then
\* returns success with the adapter running; after an error return the
\* adapter is not running, no reconnect loop exists and no listener runs
\* (none was ever started when the connect failed).
C12_StartOutcomes ==
    /\ [][/\ StartBegin /\ config.WSUrl = "" =>
               startPc' = "done" /\ startRet' = "err_no_url"
          /\ StartReconnect /\ startConn = Nil /\ config.ReconnectInterval = 0 =>
               startPc' = "done" /\ startRet' = "err_no_conn"
          /\ StartReconnect /\ startConn = Nil /\ config.ReconnectInterval > 0 =>
               startPc' = "run" /\ rlPc' = "wait" /\ conn' = Nil
          /\ StartSetRunning /\ startConn = Nil =>
               /\ running' /\ startRet' = "ok" /\ startPc' = "done"
               /\ rlPc' \notin {"off", "done"}
               /\ conn' = Nil \/ nDialed > 0]_vars
    /\ [](StartFailed =>
            /\ ~running
            /\ rlPc = "off"
            /\ \A i \in SockIds : lisPc[i] \in {"unborn", "done"}
            /\ startConn = Nil => \A i \in SockIds : lisPc[i] = "unborn")

\* Reconnection is disabled, the only dial failed, and Start returned the
\* error.
C12_Witness ==
    /\ config.ReconnectInterval = 0
    /\ startPc = "done"
    /\ startRet = "err_no_conn"
    /\ startConn = Nil
    /\ nDialed = 0

(* ------------------------------ Send while disconnected ---------------- *)
\* C13: a call of Send that finds the adapter not running, or then finds
\* c.conn nil, returns its error in that very step: the caller is back at
\* idle, and the echo counter, the echoes assigned, the wire, the write lock,
\* c.conn and the sockets are as they were.
C13_SendNotConnected ==
    [][\A p \in Senders :
         /\ SendCall(p) /\ ~running =>
              /\ sendRet' = "err_not_running"
              /\ sendPc'[p] = "idle"
              /\ UNCHANGED <<echoCounter, echoes, wire, writeMu, conn, sock, running>>
         /\ (\E chatID \in ChatIds : SendSnap(p, chatID)) /\ conn = Nil =>
              /\ sendRet' = "err_not_connected"
              /\ sendPc'[p] = "idle"
              /\ UNCHANGED <<echoCounter, echoes, wire, writeMu, conn, sock, running>>]_vars

\* The adapter is running, the peer dropped the first socket and its listener
\* cleared c.conn, no reconnect has happened yet, and a Send returned "not
\* connected" having written nothing.
C13_Witness ==
    /\ running
    /\ ~StopCalled
    /\ sock[1] = "closed"
    /\ sock[2] = "unborn"
    /\ conn = Nil
    /\ sendRet = "err_not_connected"
    /\ wire = <<>>
    /\ echoCounter = 0

(* ------------------------------ writes --------------------------------- *)
\* What socket s was given to write, in order.
WireOf(s) == SelectSeq(wire, LAMBDA h : h.conn = s)

\* Every first half is followed at once by the second half of the same
\* frame, and every second half follows its first half.
WellFramed(w) ==
    \A k \in 1..Len(w) :
       /\ w[k].half = "head" /\ k < Len(w) =>
            /\ w[k + 1].half \in {"tail", "error"}
            /\ w[k + 1].by = w[k].by /\ w[k + 1].echo = w[k].echo
       /\ w[k].half = "error" => k = Len(w)
       /\ w[k].half = "tail" =>
            k > 1 /\ w[k - 1].half = "head" /\ w[k - 1].by = w[k].by
                  /\ w[k - 1].echo = w[k].echo

\* The callers inside conn.WriteMessage.
Writing == {p \in Senders : sendPc[p] = "writing"}

\* C14: at most one caller of Send is inside WriteMessage at any time, it is
\* the holder of writeMu, and on every socket the halves of different frames
\* are never mixed.
C14_WritesNeverInterleave ==
    /\ Cardinality(Writing) <= 1
    /\ \A p \in Writing : writeMu = p
    /\ \A s \in SockIds : WellFramed(WireOf(s))

\* One caller is in the middle of its write, with the first half of its frame
\* on the wire, while the other has its echo and waits for writeMu.
C14_Witness ==
    /\ sendPc[1] = "writing"
    /\ writeMu = 1
    /\ sendPc[2] = "write"
    /\ sendConn[1] = sendConn[2]
    /\ wire # <<>>
    /\ wire[Len(wire)].half = "head"

(* ------------------------------ echoes --------------------------------- *)
\* The callers that hold an echo: past the counter, not yet returned.
HasEcho == {p \in Senders : sendPc[p] \in {"write", "writing"}}

\* C15: the echo numbers are assigned in strictly increasing order, the last
\* one assigned is the counter's value, no two callers hold the same echo,
\* and every caller's echo is one of those assigned.
C15_EchoFresh ==
    /\ \A k, l \in 1..Len(echoes) : k < l => echoes[k] < echoes[l]
    /\ echoes # <<>> => echoes[Len(echoes)] = echoCounter
    /\ \A p, q \in HasEcho : p # q => sendEcho[p] # sendEcho[q]
    /\ \A p \in HasEcho : \E k \in 1..Len(echoes) : echoes[k] = sendEcho[p]
    /\ \A k, l \in 1..Len(wire) :
         wire[k].echo = wire[l].echo => wire[k].by = wire[l].by /\ wire[k].conn = wire[l].conn

\* Two concurrent callers each hold an echo and neither has written yet.
C15_Witness ==
    /\ sendPc[1] = "write"
    /\ sendPc[2] = "write"
    /\ Len(echoes) = 2
    /\ sendEcho[1] > sendEcho[2]

(* ------------------------------ destinations --------------------------- *)
\* The request each well-formed chat id stands for.
Destinations ==
    { [chatID |-> GroupPfx \o <<"-", "3">>, action |-> "send_group_msg", id |-> 0 - 3],
      [chatID |-> PrivatePfx \o <<"4", "2">>, action |-> "send_private_msg", id |-> 42],
      [chatID |-> <<"4", "2">>, action |-> "send_private_msg", id |-> 42] }

WellFormed(chatID) == \E d \in Destinations : d.chatID = chatID

\* C20: a Send that holds a connection builds, for "group:<n>", send_group_msg
\* with group_id n, and for "private:<n>" and a bare <n>, send_private_msg with
\* user_id n; for any other chat id it returns the validation error in that
\* step, with the echo counter and the wire unchanged.
C20_Addressing ==
    [][\A p \in Senders, chatID \in ChatIds :
         SendSnap(p, chatID) /\ conn # Nil =>
           /\ \A d \in Destinations :
                d.chatID = chatID =>
                  /\ sendReq'[p] = [action |-> d.action, id |-> d.id]
                  /\ sendPc'[p] = "echo"
           /\ ~WellFormed(chatID) =>
                /\ sendRet' = "err_invalid"
                /\ sendPc'[p] = "idle"
                /\ UNCHANGED <<echoCounter, echoes, wire, writeMu, conn, sock>>]_vars

\* A Send to a group went out on the wire, and a later Send with a malformed
\* chat id returned the validation error, leaving the counter at one.
C20_Witness ==
    /\ sendRet = "err_invalid"
    /\ conn # Nil
    /\ Len(wire) = 2
    /\ echoCounter = 1
    /\ sendsLeft = 0

(* ------------------------------ control frames ------------------------- *)
\* A frame that parses and carries an echo or a status payload, or whose
\* post_type is not "message".
Control(f) ==
    /\ f.json
    /\ \/ f.echo # ""
       \/ f.status.Online
       \/ f.status.Good
       \/ f.post_type # "message"

\* C16: handling a frame with a non-empty echo, with a status payload, or with
\* a post_type other than "message" (meta_event, notice, request, empty,
\* unknown) dispatches nothing and leaves the dedup window, c.conn and the
\* sockets as they were, whatever else the frame carries.
C16_ControlFramesHaveNoEffect ==
    [][\A f \in InboundFrames :
         HandleDirect(f) /\ Control(f) =>
           UNCHANGED <<dedupVars, since, bus, conn, sock>>]_vars

\* Two frames were handled, the last a complete private message that also
\* carried an echo: nothing was dispatched and no id was recorded.
C16_Witness ==
    /\ handled = EchoFrame
    /\ budget = 0
    /\ bus = <<>>
    /\ dedup = {}
    /\ dedupIdx = 0

(* ------------------------------ malformed frames ----------------------- *)
\* C17: a listener that reads a frame that is not JSON takes it off the
\* socket, dispatches nothing, leaves the dedup window, c.conn and every socket
\* as they were, keeps its own socket, and is back at the top of its loop.
C17_BadJsonDroppedAlone ==
    [][\A i \in SockIds :
         ListenFrame(i) /\ ~NextFrame(i).json =>
           /\ UNCHANGED <<dedupVars, since, bus, conn, sock, lisConn>>
           /\ inbox'[lisConn[i]] = Tail(inbox[lisConn[i]])
           /\ lisPc'[i] = "select"]_vars

\* The listener took a frame that did not parse off its socket and is reading
\* the same socket again, where the next message is waiting; c.conn still
\* holds that socket and nothing was recorded or dispatched.
C17_Witness ==
    /\ handled = BadJson
    /\ nDialed = 1
    /\ conn = 1
    /\ sock[1] = "open"
    /\ lisPc[1] = "read"
    /\ lisConn[1] = 1
    /\ inbox[1] = <<PrivateFrame(IdPool[1])>>
    /\ bus = <<>>
    /\ dedup = {}

(* ------------------------------ routing -------------------------------- *)
\* The call of HandleMessage for an event, with the given chat id and content.
BusCall(evt, chatID, content) ==
    [senderID |-> evt.UserID, chatID |-> chatID, content |-> content,
     message_id |-> evt.MessageID]

\* C18: for a message event that normalizes and is no duplicate: a private one
\* with content is dispatched with chat id private:<user_id> and its content,
\* whatever the trigger prefixes; a group one is dispatched only when
\* checkGroupTrigger reports triggered, and then with chat id group:<group_id>
\* and the stripped content; an untriggered group one and one of any other
\* message_type is not dispatched.
C18_RoutingByScope ==
    [][\A f \in InboundFrames :
         HandleDirect(f) /\ Reaches(f) /\ f.message_id \notin dedup =>
           LET evt == normalizeMessageEvent(f)
               t == checkGroupTrigger(evt.Content, evt.IsBotMentioned)
           IN /\ evt.MessageType = "private" /\ evt.Content # <<>> =>
                   bus' = Append(bus, BusCall(evt, <<"private", evt.UserID>>, evt.Content))
              /\ evt.MessageType = "group" =>
                   /\ bus' # bus => t.triggered
                   /\ t.triggered /\ evt.Content # <<>> =>
                        bus' = Append(bus, BusCall(evt, <<"group", evt.GroupID>>, t.content))
              /\ evt.MessageType \notin {"private", "group"} => bus' = bus]_vars

\* A private message from user 7 was dispatched to private:7, then a group
\* message of group 9 that mentions the bot was dispatched to group:9 with the
\* mention removed.
C18_Witness ==
    /\ handled = GroupFrame(IdPool[2], cqAt(1) \o <<" ", "h">>)
    /\ bus = << [senderID |-> 7, chatID |-> <<"private", 7>>, content |-> <<"h">>,
                 message_id |-> IdPool[1]],
                [senderID |-> 7, chatID |-> <<"group", 9>>, content |-> <<"h">>,
                 message_id |-> IdPool[2]] >>

(* ------------------------------ the trigger classifier ----------------- *)
\* The positions of the non-empty prefixes the content starts with.
Matching(content, prefixes) ==
    {k \in 1..Len(prefixes) :
       /\ prefixes[k] # <<>>
       /\ Len(prefixes[k]) <= Len(content)
       /\ \A j \in 1..Len(prefixes[k]) : content[j] = prefixes[k][j]}

\* The content without its first n characters.
Drop(content, n) == [j \in 1..(Len(content) - n) |-> content[j + n]]

\* The content without the spaces at its ends.
Trimmed(content) ==
    LET inner == {j \in 1..Len(content) : content[j] # Space}
    IN IF inner = {} THEN <<>>
       ELSE LET lo == CHOOSE j \in inner : \A m \in inner : j <= m
                hi == CHOOSE j \in inner : \A m \in inner : m <= j
            IN [j \in 1..(hi - lo + 1) |-> content[j + lo - 1]]

\* The classification as stated: a mention triggers and the content is
\* trimmed; otherwise the first non-empty prefix, in list order, that the
\* content starts with triggers, and that one prefix is removed and the rest
\* trimmed; otherwise not triggered and the content is unchanged.
Classify(content, isBotMentioned, prefixes) ==
    IF isBotMentioned THEN [triggered |-> TRUE, strippedContent |-> Trimmed(content)]
    ELSE IF Matching(content, prefixes) = {}
    THEN [triggered |-> FALSE, strippedContent |-> content]
    ELSE LET k == CHOOSE m \in Matching(content, prefixes) :
                    \A n \in Matching(content, prefixes) : m <= n
         IN [triggered |-> TRUE,
             strippedContent |-> Trimmed(Drop(content, Len(prefixes[k])))]

\* C19: checkGroupTrigger returns what the classification says, for every
\* content, mention flag and prefix list; with prefixes ["!bot "], "!bot hello"
\* gives (true, "hello") and "hello" gives (false, "hello").
C19_Classify ==
    /\ trig.called =>
         /\ trig.triggered =
              Classify(trig.content, trig.isBotMentioned, config.GroupTriggerPrefix).triggered
         /\ trig.strippedContent =
              Classify(trig.content, trig.isBotMentioned,
                       config.GroupTriggerPrefix).strippedContent
    /\ trig.called /\ ~trig.isBotMentioned /\ config.GroupTriggerPrefix = <<Bot>> =>
         /\ trig.content = Bot \o <<"h", "e", "l", "l", "o">> =>
              trig.triggered /\ trig.strippedContent = <<"h", "e", "l", "l", "o">>
         /\ trig.content = <<"h", "e", "l", "l", "o">> =>
              ~trig.triggered /\ trig.strippedContent = <<"h", "e", "l", "l", "o">>

\* With an empty prefix listed before "!bot ", the content "!bot  hi " was
\* classified without a mention: triggered, "hi".
C19_Witness ==
    /\ config.GroupTriggerPrefix = << <<>>, Bot >>
    /\ trig.called
    /\ ~trig.isBotMentioned
    /\ trig.content = Bot \o <<" ", "h", "i", " ">>
    /\ trig.triggered
    /\ trig.strippedContent = <<"h", "i">>

(* ------------------------------ normalization -------------------------- *)
\* The mention code of self id 1, and message texts around it: without it,
\* with it at either end, twice, inside another copy of itself, and the code
\* of another id.
Mention == cqAt(1)
RawTexts ==
    {<<>>, <<"h">>, <<" ", "h", " ">>, Mention, Mention \o <<" ", "h">>,
     <<"h", " ">> \o Mention \o <<" ", "i">>, Mention \o Mention,
     <<"[">> \o Mention \o <<"1", "]">>, cqAt(2) \o <<"h">>}
SegLists ==
    {<<>>, <<TextSeg(<<"h">>)>>, <<TextSeg(<<"b">>), TextSeg(<<"a">>)>>,
     <<AtSeg(<<"1">>), TextSeg(<<" ", "h">>)>>,
     <<AtSeg(<<"a", "l", "l">>), ImageSeg, TextSeg(<<"a">>), TextSeg(<<"b">>)>>,
     <<AtSeg(<<"2">>), TextSeg(<<"h">>)>>,
     <<TextSeg(Mention \o <<"h">>)>>,
     <<TextSeg(<<"[">>), TextSeg(<<"1", "]">>)>>}
Messages ==
    {NoMessage, OtherMessage} \cup {StrMessage(s) : s \in RawTexts}
      \cup {SegMessage(l) : l \in SegLists}
\* A JSON string of digits that spells a number beyond the int64 range.
TooBig == Str(FormatInt(MaxInt64) \o <<"0">>)
SelfIds == {Num(1), NumStr(1), Absent, Null, Num(0), BadStr, TooBig}
UserIds == {Num(7), NumStr(7), Absent, Null, BadStr, OtherJson, Num(MaxInt64 + 1), TooBig}

\* Message events: every content with every self id, and every value of the
\* other fields.
ContentFrames ==
    {[PrivateFrame(IdPool[1]) EXCEPT !.raw_message = r, !.message = m, !.self_id = s] :
        r \in RawTexts, m \in Messages, s \in SelfIds}
FieldFrames ==
    {[GroupFrame(IdPool[1], <<"!", "h">>) EXCEPT
         !.user_id = u, !.group_id = g, !.self_id = s, !.time = tm, !.sender = sd] :
        u \in UserIds, g \in {Absent, NumStr(9), Num(-9), BadStr, TooBig},
        s \in {Num(1), BadStr, TooBig}, tm \in {Absent, Num(3), BadStr, TooBig},
        sd \in {"absent", "ok", "bad"}}
NormFrames == ContentFrames \cup FieldFrames

\* handleRawEvent called on one frame; norm keeps what the call of
\* normalizeMessageEvent inside it was given and what it returned.
NormalizeDirect(raw) ==
    /\ budget > 0
    /\ budget' = budget - 1
    /\ norm' = [called |-> TRUE, raw |-> raw, ok |-> normalizeOk(raw),
                evt |-> normalizeMessageEvent(raw)]
    /\ handleRawEvent(raw)
    /\ handled' = raw
    /\ UNCHANGED <<config, timed, dec, retryVars, editVars, sendVars, running, ctx,
                   conn, sock, peerUp, inbox, startVars, rlVars, lisVars, stopVars,
                   probeVars>>

NextNormalize == \E raw \in NormFrames : NormalizeDirect(raw)

InitNormalize == InitWith(1)

SpecNormalize == InitNormalize /\ [][NextNormalize]_vars

\* The call recorded in norm succeeded, for an event whose self id is known.
NormKnown == norm.called /\ norm.ok /\ norm.evt.SelfID > 0

\* C21: after normalization of a message event whose self id is known, the
\* content does not contain the mention code of that self id, whichever of
\* raw_message, a plain-string message or a segment-list message it came from.
C21_ContentFreeOfMention ==
    NormKnown => ~Contains(norm.evt.Content, cqAt(norm.evt.SelfID))

\* Normalization of the event that carries the given content as raw_message
\* and nothing else, with the self id of the recorded call.
Renormalized(content) ==
    normalizeMessageEvent([norm.raw EXCEPT !.raw_message = content,
                                           !.message = NoMessage])

\* Content free of the mention code, given as raw_message or as a plain-string
\* message with no other source beside it, comes out unchanged, not mentioned.
C22_FreeContentUnchanged ==
    NormKnown =>
        LET raw == norm.raw
            free(s) == ~Contains(s, cqAt(norm.evt.SelfID))
        IN /\ (raw.raw_message # <<>> /\ free(raw.raw_message)
                 /\ raw.message.form = "absent")
               => norm.evt.Content = raw.raw_message /\ ~norm.evt.IsBotMentioned
           /\ (raw.raw_message = <<>> /\ raw.message.form = "string"
                 /\ free(raw.message.s))
               => norm.evt.Content = raw.message.s /\ ~norm.evt.IsBotMentioned

\* C22: mention stripping is idempotent: content free of the mention code is
\* left unchanged with isBotMentioned false, and stripping applied to its own
\* output changes nothing.
C22_StrippingIdempotent ==
    /\ C22_FreeContentUnchanged
    /\ NormKnown =>
         /\ Renormalized(norm.evt.Content).Content = norm.evt.Content
         /\ ~Renormalized(norm.evt.Content).IsBotMentioned

\* A raw value that spells an integer of the int64 range, or nothing.
IsIntegerText(s) ==
    LET digits == IF s # <<>> /\ Head(s) \in {"+", "-"} THEN Tail(s) ELSE s
    IN /\ digits # <<>>
       /\ \A k \in 1..Len(digits) : digits[k] \in DigitChars
       /\ IF Head(s) = "-" THEN 0 - DigitsVal(digits) >= MinInt64
          ELSE DigitsVal(digits) <= MaxInt64
Coercible(raw) ==
    \/ raw.tag \in {"absent", "null"}
    \/ raw.tag = "number" /\ raw.n >= MinInt64 /\ raw.n <= MaxInt64
    \/ raw.tag = "string" /\ IsIntegerText(raw.s)

\* Normalization fails exactly when user_id is not coercible; the event is then
\* neither dispatched nor recorded.
C23_OnlyUserIdFails ==
    norm.called =>
        /\ norm.ok <=> Coercible(norm.raw.user_id)
        /\ ~norm.ok => bus = <<>> /\ dedup = {} /\ dedupIdx = 0

\* C23: normalization fails if and only if user_id cannot be coerced to an
\* integer, and the event is then neither dispatched nor recorded; a group_id,
\* self_id or time that cannot be coerced is taken as 0 and a sender that does
\* not parse is left empty, without failing normalization.
C23_NormalizationFailure ==
    /\ C23_OnlyUserIdFails
    /\ (norm.called /\ norm.ok) =>
         /\ ~Coercible(norm.raw.group_id) => norm.evt.GroupID = 0
         /\ ~Coercible(norm.raw.self_id) => norm.evt.SelfID = 0
         /\ ~Coercible(norm.raw.time) => norm.evt.Time = 0
         /\ norm.raw.sender # "ok" => norm.evt.Sender = ""

\* s with the occurrences of tok cut out, found from the left, the search
\* going on behind each cut.
RECURSIVE CutFrom(_, _, _)
CutFrom(s, tok, k) ==
    IF k + Len(tok) - 1 > Len(s) THEN s
    ELSE IF SubSeq(s, k, k + Len(tok) - 1) = tok
    THEN CutFrom(SubSeq(s, 1, k - 1) \o SubSeq(s, k + Len(tok), Len(s)), tok, k)
    ELSE CutFrom(s, tok, k + 1)
\* The mention stripping of the statement: the code of selfID cut out and the
\* rest trimmed, when selfID is known and its code occurs.
Stripped(s, selfID) ==
    IF selfID > 0 /\ CutFrom(s, cqAt(selfID), 1) # s
    THEN TrimSpace(CutFrom(s, cqAt(selfID), 1)) ELSE s
\* The text payloads of segments k.. in order.
RECURSIVE TextFrom(_, _)
TextFrom(segs, k) ==
    IF k > Len(segs) THEN <<>>
    ELSE IF segs[k].type = "text" THEN segs[k].text \o TextFrom(segs, k + 1)
    ELSE TextFrom(segs, k + 1)
Decoded(message, selfID) ==
    IF message.form = "string" THEN Stripped(message.s, selfID)
    ELSE IF message.form = "segments" THEN TrimSpace(TextFrom(message.segs, 1))
    ELSE <<>>

\* C30: a non-empty raw_message is the content, with the mention code removed
\* (and isBotMentioned set when the code was found in it), whatever the message
\* field holds; only with an empty raw_message is the content the decoded
\* message field: the plain string, or the text segments in order.
C30_RawMessageFirst ==
    (norm.called /\ norm.ok) =>
        LET raw == norm.raw
            selfID == norm.evt.SelfID
        IN IF raw.raw_message # <<>>
           THEN /\ norm.evt.Content = Stripped(raw.raw_message, selfID)
                /\ \A m \in Messages :
                     normalizeMessageEvent([raw EXCEPT !.message = m]).Content
                       = norm.evt.Content
                /\ (selfID > 0 /\ Contains(raw.raw_message, cqAt(selfID)))
                     => norm.evt.IsBotMentioned
           ELSE norm.evt.Content = Decoded(raw.message, selfID)

\* Both sources are given and decode to different texts, with the mention code
\* in raw_message.
C30_Witness ==
    /\ norm.called
    /\ norm.ok
    /\ norm.raw.raw_message = <<"h", " ">> \o Mention \o <<" ", "i">>
    /\ norm.raw.message = SegMessage(<<TextSeg(<<"b">>), TextSeg(<<"a">>)>>)
    /\ norm.raw.self_id = Num(1)
    /\ norm.evt.Content = <<"h", " ", " ", "i">>
    /\ norm.evt.IsBotMentioned

(* ------------------------------ integer decoding ----------------------- *)
\* Raw values handed to the decoders: nothing, null, integers as numbers and
\* as strings of their digits, numbers beyond the range, and strings that are
\* blank, padded, signed, or no number at all.
OddStrings ==
    {<<>>, <<" ">>, <<" ", "5", " ">>, <<"5", " ">>, <<"+", "5">>, <<"-">>,
     <<"5", "x">>, <<"1", ".", "5">>, <<"a", "b", "c">>, <<"5", " ", "5">>}
DecodeInputs ==
    {Absent, Null, OtherJson, TooBig, Num(MaxInt64 + 1), Num(MinInt64 - 1),
     Num(MaxInt64), NumStr(MaxInt64), Num(MinInt64), NumStr(MinInt64)}
      \cup {Num(n) : n \in (0 - MaxDecoded)..MaxDecoded}
      \cup {NumStr(n) : n \in (0 - MaxDecoded)..MaxDecoded}
      \cup {Str(s) : s \in OddStrings}

\* Both decoders called on one raw value.
Decode(raw) ==
    /\ ~dec.called
    /\ dec' = [called |-> TRUE, raw |-> raw, flexible |-> parseFlexibleInt(raw),
               int64 |-> parseJSONInt64(raw)]
    /\ UNCHANGED <<config, timed, norm, retryVars, editVars, handled, sendVars, running,
                   ctx, dedupVars, connVars, startVars, rlVars, lisVars, stopVars, bus,
                   probeVars, since>>

NextDecode == \E raw \in DecodeInputs : Decode(raw)

InitDecode == InitWith(0)

SpecDecode == InitDecode /\ [][NextDecode]_vars

\* An optional sign and then digits, and nothing else.
IsNumberText(s) ==
    LET digits == IF s # <<>> /\ Head(s) \in {"+", "-"} THEN Tail(s) ELSE s
    IN digits # <<>> /\ \A k \in 1..Len(digits) : digits[k] \in DigitChars

\* Both decoders give n for the number n and for the string of n's digits,
\* and 0 for an absent value and for null, without error.
C24_NumbersAndAbsent ==
    dec.called =>
        /\ \A n \in MinInt64..MaxInt64 :
             (dec.raw = Num(n) \/ dec.raw = NumStr(n)) =>
                 /\ dec.flexible = [err |-> FALSE, n |-> n]
                 /\ dec.int64 = [err |-> FALSE, n |-> n]
        /\ dec.raw \in {Absent, Null} =>
             /\ dec.flexible = [err |-> FALSE, n |-> 0]
             /\ dec.int64 = [err |-> FALSE, n |-> 0]

maxRetries == 3
StatusOK == 200
StatusTooManyRequests == 429
StatusInternalServerError == 500

shouldRetry(statusCode) ==
    statusCode = StatusTooManyRequests \/ statusCode >= StatusInternalServerError

\* What client.Do gives back: a response with one of these status codes, or
\* an error and no response.
Statuses == {StatusOK, 404, StatusTooManyRequests, StatusInternalServerError, 503}
DoError == 0
Answers == Statuses \cup {DoError}

\* The status code of a response, given by its place in served; 0 for nil.
StatusOf(resp) == IF resp = 0 THEN 0 ELSE served[resp].status

\* DoRequestWithRetry is called: resp and err are nil, the loop starts at 0.
RetryCall ==
    /\ retryPc = "idle"
    /\ retryPc' = "do"
    /\ retryI' = 0
    /\ retryResp' = 0
    /\ retryErr' = "nil"
    /\ UNCHANGED <<config, timed, norm, dec, editVars, retryRet, reqCtx, served, handled,
                   sendVars, running, ctx, dedupVars, connVars, startVars, rlVars,
                   lisVars, stopVars, bus, probeVars, since>>

\* Variant: a response that is not to be retried is retried like any other
\* that is not 200.
AfterDoRetryAll(answer, i) ==
    IF answer = StatusOK THEN "return"
    ELSE IF i < maxRetries - 1 THEN "sleep"
    ELSE "return"

\* Where the loop goes after client.Do in round i: out of the loop on a
\* response that is 200 or not to be retried and after the last round, else
\* into the sleep.
AfterDo(answer, i) ==
    IF answer # DoError /\ (answer = StatusOK \/ ~shouldRetry(answer)) THEN "return"
    ELSE IF i < maxRetries - 1 THEN "sleep"
    ELSE "return"

\* One round of the loop up to the sleep: the body of the previous response is
\* closed, client.Do is called and answers.  With the context cancelled it
\* answers with an error.
RetryDo(answer) ==
    /\ retryPc = "do"
    /\ reqCtx = "cancelled" => answer = DoError
    /\ served' = (IF retryI > 0 /\ retryResp # 0
                  THEN [served EXCEPT ![retryResp].closed = TRUE] ELSE served)
                   \o << [status |-> answer, closed |-> FALSE] >>
    /\ retryResp' = IF answer = DoError THEN 0 ELSE Len(served) + 1
    /\ retryErr' = IF answer = DoError THEN "do" ELSE "nil"
    /\ retryPc' = AfterDo(answer, retryI)
    /\ UNCHANGED <<config, timed, norm, dec, editVars, retryI, retryRet, reqCtx, handled,
                   sendVars, running, ctx, dedupVars, connVars, startVars, rlVars,
                   lisVars, stopVars, bus, probeVars, since>>

\* sleepWithCtx returns nil: the timer fired.  err is nil, the next round starts.
\* The select of lines 49-54 takes either case when the timer has fired and
\* the context is cancelled as well, so this step is open after a cancellation.
RetrySlept ==
    /\ retryPc = "sleep"
    /\ retryErr' = "nil"
    /\ retryI' = retryI + 1
    /\ retryPc' = "do"
    /\ UNCHANGED <<config, timed, norm, dec, editVars, retryResp, retryRet, reqCtx, served,
                   handled, sendVars, running, ctx, dedupVars, connVars, startVars,
                   rlVars, lisVars, stopVars, bus, probeVars, since>>

\* Variant: on a cancelled wait the last response is returned with the error.
RetrySleepCancelledKeepsResp ==
    /\ retryPc = "sleep"
    /\ reqCtx = "cancelled"
    /\ retryErr' = "sleep"
    /\ retryRet' = [returned |-> TRUE, resp |-> retryResp, err |-> "sleep"]
    /\ retryPc' = "done"
    /\ UNCHANGED <<config, timed, norm, dec, editVars, retryI, retryResp, reqCtx, served,
                   handled, sendVars, running, ctx, dedupVars, connVars, startVars,
                   rlVars, lisVars, stopVars, bus, probeVars, since>>

\* sleepWithCtx returns ctx.Err(): DoRequestWithRetry returns nil and the error.
RetrySleepCancelled ==
    /\ retryPc = "sleep"
    /\ reqCtx = "cancelled"
    /\ retryErr' = "sleep"
    /\ retryRet' = [returned |-> TRUE, resp |-> 0, err |-> "sleep"]
    /\ retryPc' = "done"
    /\ UNCHANGED <<config, timed, norm, dec, editVars, retryI, retryResp, reqCtx, served,
                   handled, sendVars, running, ctx, dedupVars, connVars, startVars,
                   rlVars, lisVars, stopVars, bus, probeVars, since>>

\* return resp, err
RetryReturn ==
    /\ retryPc = "return"
    /\ retryRet' = [returned |-> TRUE, resp |-> retryResp, err |-> retryErr]
    /\ retryPc' = "done"
    /\ UNCHANGED <<config, timed, norm, dec, editVars, retryI, retryResp, retryErr, reqCtx,
                   served, handled, sendVars, running, ctx, dedupVars, connVars,
                   startVars, rlVars, lisVars, stopVars, bus, probeVars, since>>

\* The owner of the request cancels its context while the call is under way.
CancelRequest ==
    /\ retryPc \in {"do", "sleep", "return"}
    /\ reqCtx = "live"
    /\ reqCtx' = "cancelled"
    /\ UNCHANGED <<config, timed, norm, dec, editVars, retryPc, retryI, retryResp, retryErr,
                   retryRet, served, handled, sendVars, running, ctx, dedupVars,
                   connVars, startVars, rlVars, lisVars, stopVars, bus, probeVars, since>>

NextRetry ==
    \/ RetryCall
    \/ \E answer \in Answers : RetryDo(answer)
    \/ RetrySlept
    \/ RetrySleepCancelled
    \/ RetryReturn
    \/ CancelRequest

InitRetry == InitWith(0)

SpecRetry == InitRetry /\ [][NextRetry]_vars

\* The attempts made, and the ones that end the retrying: a response with
\* status 200 or with a status that is neither 429 nor 500 and above.
Attempts == Len(served)
Final(k) ==
    /\ served[k].status # DoError
    /\ served[k].status = StatusOK
         \/ ~(served[k].status = 429 \/ served[k].status >= 500)
AllRetryable ==
    \A k \in 1..Attempts : served[k].status # DoError /\ ~Final(k)

\* At most 3 attempts; the first final attempt is the last one made and its
\* response is the one returned; 200 at once means one attempt.
C25_StopsOnFinal ==
    /\ Attempts <= 3
    /\ \A k \in 1..Attempts : Final(k) => Attempts = k
    /\ \A k \in 1..Attempts :
         (Final(k) /\ retryRet.returned) =>
             retryRet.resp = k /\ retryRet.err = "nil"
    /\ (Attempts >= 1 /\ served[1].status = StatusOK /\ retryRet.returned)
         => Attempts = 1

\* C25 as stated: at most 3 attempts, stopping at the first final one, whose
\* response is returned; and when every attempt returns a retryable status,
\* exactly 3 attempts, the last response returned.
C25_AtMostThreeAttempts ==
    /\ C25_StopsOnFinal
    /\ (retryRet.returned /\ AllRetryable) =>
         Attempts = 3 /\ retryRet.resp = 3

\* C25, amended: when every attempt returns a retryable status there are
\* exactly 3 attempts and the last response is returned, unless the context of
\* the request is cancelled during a wait between attempts: then there are
\* fewer than 3 attempts, and nil is returned with an error.
C25_ThreeAttemptsUnlessCancelled ==
    /\ C25_StopsOnFinal
    /\ (retryRet.returned /\ AllRetryable) =>
         \/ Attempts = 3 /\ retryRet.resp = 3 /\ retryRet.err = "nil"
         \/ /\ reqCtx = "cancelled"
            /\ Attempts < 3
            /\ retryRet.resp = 0
            /\ retryRet.err = "sleep"

\* Three attempts, each answered with a retryable status; the last response
\* is returned.
C25_Witness ==
    /\ retryRet.returned
    /\ Attempts = 3
    /\ served[1].status = 500 /\ served[2].status = 503 /\ served[3].status = 429
    /\ retryRet.resp = 3
    /\ served[1].closed /\ served[2].closed /\ ~served[3].closed

(* ------------------------------ file tools ----------------------------- *)
\* A path is a string; "/" separates its elements.
Sep == "/"
Dot == <<".">>
DotDot == <<".", ".">>

\* The elements of a path, empty ones included.
RECURSIVE SplitPath(_)
SplitPath(s) ==
    IF s = <<>> THEN << <<>> >>
    ELSE LET rest == SplitPath(Tail(s))
         IN IF Head(s) = Sep THEN << <<>> >> \o rest
            ELSE << <<Head(s)>> \o Head(rest) >> \o Tail(rest)

\* filepath.Clean on a rooted path, element by element: empty elements and
\* "." go away, ".." takes the element before it away, and nothing at the root.
RECURSIVE Resolve(_, _)
Resolve(elems, acc) ==
    IF elems = <<>> THEN acc
    ELSE IF Head(elems) = <<>> \/ Head(elems) = Dot THEN Resolve(Tail(elems), acc)
    ELSE IF Head(elems) = DotDot
    THEN Resolve(Tail(elems), IF acc = <<>> THEN acc ELSE SubSeq(acc, 1, Len(acc) - 1))
    ELSE Resolve(Tail(elems), Append(acc, Head(elems)))

RECURSIVE JoinPath(_)
JoinPath(elems) ==
    IF elems = <<>> THEN <<>> ELSE <<Sep>> \o Head(elems) \o JoinPath(Tail(elems))

\* filepath.Clean(path) for a rooted path.
Clean(path) ==
    IF Resolve(SplitPath(path), <<>>) = <<>> THEN <<Sep>>
    ELSE JoinPath(Resolve(SplitPath(path), <<>>))

\* filepath.IsAbs
IsAbs(path) == path # <<>> /\ Head(path) = Sep

\* The working directory of the process, and filepath.Abs.
Cwd == <<Sep>>
Abs(path) == IF IsAbs(path) THEN Clean(path) ELSE Clean(Cwd \o <<Sep>> \o path)

\* validatePath: the path as given when there is no workspace; else the
\* cleaned absolute path, a relative one taken from the workspace; with
\* restrict, an error unless that path has the workspace path as a prefix.
validatePath(path, workspace, restrict) ==
    IF workspace = <<>> THEN [err |-> FALSE, path |-> path]
    ELSE LET absWorkspace == Abs(workspace)
             absPath == IF IsAbs(path) THEN Clean(path)
                        ELSE Abs(absWorkspace \o <<Sep>> \o path)
         IN IF restrict /\ ~HasPrefix(absPath, absWorkspace)
            THEN [err |-> TRUE, path |-> <<>>]
            ELSE [err |-> FALSE, path |-> absPath]

\* strings.Count(s, substr): the non-overlapping occurrences, found from the
\* left; for an empty substr, one more than the length.
RECURSIVE Count(_, _)
Count(s, substr) ==
    IF substr = <<>> THEN Len(s) + 1
    ELSE IF Len(s) < Len(substr) THEN 0
    ELSE IF HasPrefix(s, substr)
    THEN 1 + Count(SubSeq(s, Len(substr) + 1, Len(s)), substr)
    ELSE Count(Tail(s), substr)

\* strings.Replace(s, old, new, 1): the first occurrence of old replaced.
RECURSIVE Replace(_, _, _)
Replace(s, old, new) ==
    IF HasPrefix(s, old) THEN new \o SubSeq(s, Len(old) + 1, Len(s))
    ELSE IF s = <<>> THEN s
    ELSE <<Head(s)>> \o Replace(Tail(s), old, new)

\* The workspace, the files and the directories of the file system.
Workspace == <<Sep, "w">>
InsideFile == <<Sep, "w", Sep, "f">>
SiblingFile == <<Sep, "w", "x", Sep, "f">>
OtherFile == <<Sep, "x">>
FilePaths == {InsideFile, SiblingFile, OtherFile}
Dirs == {<<Sep>>, Workspace, <<Sep, "w", "x">>}
NoFile == [exists |-> FALSE, content |-> <<>>]
File(content) == [exists |-> TRUE, content |-> content]

\* Texts of up to MaxText characters.
Texts(n) == UNION {[1..k -> {"a", "b"}] : k \in 0..n}
EditTools ==
    {[allowedDir |-> Workspace, restrict |-> TRUE],
     [allowedDir |-> Workspace, restrict |-> FALSE],
     [allowedDir |-> <<>>, restrict |-> TRUE]}
\* The path argument: rooted and relative, plain and through "." and "..",
\* to each file, to a file that does not exist and to a directory.
EditPaths ==
    {InsideFile, <<"f">>, <<".", Sep, "f">>, <<Sep, "w", Sep, ".", ".", Sep, "w", Sep, "f">>,
     <<Sep, "w", Sep, "g">>, Workspace,
     OtherFile, <<".", ".", Sep, "x">>, <<Sep, "w", Sep, ".", ".", Sep, "x">>,
     SiblingFile, <<".", ".", Sep, "w", "x", Sep, "f">>}

\* The path the file system calls are given, as the file it names.
OsPath(path) == Abs(path)

\* What Execute does once the path is validated: the result, and the files.
edit(resolved, oldText, newText) ==
    LET at == OsPath(resolved)
        content == fs[at].content
    IN IF at \in Dirs THEN [isError |-> TRUE, msg |-> "failed to read file", fs |-> fs]
       ELSE IF at \notin FilePaths \/ ~fs[at].exists
       THEN [isError |-> TRUE, msg |-> "file not found", fs |-> fs]
       ELSE IF ~Contains(content, oldText)
       THEN [isError |-> TRUE, msg |-> "old_text not found", fs |-> fs]
       ELSE IF Count(content, oldText) > 1
       THEN [isError |-> TRUE, msg |-> "old_text appears several times", fs |-> fs]
       ELSE [isError |-> FALSE, msg |-> "File edited",
             fs |-> [fs EXCEPT ![at] = File(Replace(content, oldText, newText))]]

\* EditFileTool.Execute with its three arguments given as strings.
Execute(path, oldText, newText) ==
    /\ ~editRet.called
    /\ LET v == validatePath(path, tool.allowedDir, tool.restrict)
           r == IF v.err
                THEN [isError |-> TRUE, msg |-> "outside the workspace", fs |-> fs]
                ELSE edit(v.path, oldText, newText)
       IN /\ editRet' = [called |-> TRUE, path |-> path, oldText |-> oldText,
                         newText |-> newText, isError |-> r.isError, msg |-> r.msg,
                         before |-> fs]
          /\ fs' = r.fs
    /\ UNCHANGED <<config, timed, norm, dec, retryVars, tool, handled, sendVars, running,
                   ctx, dedupVars, connVars, startVars, rlVars, lisVars, stopVars, bus,
                   probeVars, since>>

NextEdit ==
    \E path \in EditPaths, oldText \in Texts(MaxText - 1), newText \in {<<>>, <<"c">>} :
        Execute(path, oldText, newText)

\* A tool, and a file system: the file in the workspace holds any text or is
\* not there; the two files outside it hold "ab".
InitEdit ==
    /\ InitOf({[WSUrl |-> "", ReconnectInterval |-> 0, GroupTriggerPrefix |-> <<>>]}, 0)
    /\ timed = FALSE
    /\ tool \in EditTools
    /\ \E inside \in {NoFile} \cup {File(c) : c \in Texts(MaxText)} :
         fs = [f \in FilePaths |->
                 IF f = InsideFile THEN inside ELSE File(<<"a", "b">>)]

SpecEdit == InitEdit /\ [][NextEdit]_vars

\* The file the call names, as the elements of its location: a rooted path as
\* it is, a relative one from the workspace (from the working directory when
\* the tool has no workspace).
Location(path) ==
    Resolve(SplitPath(IF IsAbs(path) THEN path
                      ELSE (IF tool.allowedDir = <<>> THEN Cwd ELSE tool.allowedDir)
                             \o <<Sep>> \o path), <<>>)
Target == JoinPath(Location(editRet.path))
\* The call was let through to the file system.
Admitted == editRet.called /\ editRet.msg # "outside the workspace"
TargetExists == Target \in FilePaths /\ editRet.before[Target].exists
\* The places where old_text occurs in the file, as the offsets of its starts.
Occurrences ==
    LET s == editRet.before[Target].content
        n == Len(editRet.oldText)
    IN {k \in 0..(Len(s) - n) : SubSeq(s, k + 1, k + n) = editRet.oldText}
\* The file with the occurrence of old_text at offset k replaced by new_text.
ReplacedAt(k) ==
    LET s == editRet.before[Target].content
    IN SubSeq(s, 1, k) \o editRet.newText
         \o SubSeq(s, k + Len(editRet.oldText) + 1, Len(s))

\* With occurrences counted one after the other, without overlap, the edit
\* succeeds exactly when there is one, and an error leaves the files unchanged.
C26_EditCountedOnce ==
    Admitted =>
        /\ ~editRet.isError <=>
             TargetExists /\ Count(editRet.before[Target].content, editRet.oldText) = 1
        /\ editRet.isError => fs = editRet.before

\* C26: edit_file succeeds only when old_text occurs exactly once in the file,
\* and then replaces that occurrence with new_text; when the file does not
\* exist, or old_text does not occur or occurs more than once, the result is an
\* error and the file is unchanged.
C26_EditExactlyOnce ==
    Admitted =>
        /\ ~editRet.isError =>
             /\ TargetExists
             /\ Cardinality(Occurrences) = 1
             /\ \A k \in Occurrences :
                  fs = [editRet.before EXCEPT ![Target] = File(ReplacedAt(k))]
        /\ (~TargetExists \/ Cardinality(Occurrences) # 1) =>
             editRet.isError /\ fs = editRet.before

\* A path whose cleaned form does not start with the characters of the
\* workspace path is rejected, and no file is changed.
C27_RejectsOtherPrefix ==
    (editRet.called /\ tool.allowedDir # <<>> /\ tool.restrict
       /\ ~HasPrefix(Target, tool.allowedDir)) =>
        editRet.isError /\ editRet.msg = "outside the workspace" /\ fs = editRet.before

\* C27: with a workspace directory and restrict set, every path, rooted or
\* relative, that resolves to a location outside that directory is rejected
\* with the "outside the workspace" error, and no file outside it is changed.
C27_WorkspaceRestriction ==
    (editRet.called /\ tool.allowedDir # <<>> /\ tool.restrict) =>
        LET ws == Resolve(SplitPath(tool.allowedDir), <<>>)
            outside == ~(Len(ws) <= Len(Location(editRet.path))
                           /\ SubSeq(Location(editRet.path), 1, Len(ws)) = ws)
        IN /\ outside =>
                editRet.isError /\ editRet.msg = "outside the workspace"
           /\ \A f \in FilePaths : f # InsideFile => fs[f] = editRet.before[f]

(* ------------------------------ write errors --------------------------- *)
\* C28: a transport error on write moves the connection to Disconnected as a
\* read error does: when the socket write of Send fails, the handle is closed
\* and the shared reference no longer holds it.
C28_WriteErrorDisconnects ==
    [][\A p \in Senders :
         (SendWriteEnd(p) /\ sendRet' = "err_write") =>
             /\ sock'[sendConn[p]] = "closed"
             /\ conn' # sendConn[p]]_vars

(* ------------------------------ reconnect pacing ----------------------- *)
\* Configured intervals: none, below the floor, the floor, above it, and
\* intervals whose number of clock units is beyond the int64 range.
Overflowing == (MaxInt64 \div Second) + 1
PacingConfigs ==
    [WSUrl : {"ws://gw"},
     ReconnectInterval : {0, 1, FloorSeconds, FloorSeconds + 1, Overflowing,
                          2 * Overflowing + 1, 2 * Overflowing + FloorSeconds + 1},
     GroupTriggerPrefix : {<< <<"!">> >>}]

InitPacing ==
    /\ InitOf(PacingConfigs, 0)
    /\ timed = TRUE
    /\ tool = NoTool
    /\ fs = NoFiles

NextPacing == Lifecycle \/ TimePasses

SpecPacing == InitPacing /\ [][NextPacing]_vars

\* The loop attempts to connect only after a tick of its timer, and the timer
\* ticks only after the floor of 5 seconds; with interval 0 there is no loop.
C29_FloorHolds ==
    /\ [][RLTick => waited >= FloorSeconds * Second]_vars
    /\ [][(rlPc # "dial" /\ rlPc' = "dial") => rlPc = "observe"]_vars
    /\ [][(rlPc # "observe" /\ rlPc' = "observe") => RLTick]_vars
    /\ [](config.ReconnectInterval = 0 => rlPc = "off")

\* C29: before every connect attempt the loop waits max(configured interval,
\* 5 seconds), whatever positive interval is configured, so that two attempts
\* of the loop are never closer than the floor; with interval 0 there is no
\* loop at all.
C29_ReconnectPacing ==
    /\ C29_FloorHolds
    /\ [][RLTick =>
            waited >= Second * (IF config.ReconnectInterval > FloorSeconds
                                THEN config.ReconnectInterval ELSE FloorSeconds)]_vars

(* ------------------------------ Start beside its listener ------------- *)
\* C31: with reconnection disabled, a Start whose initial connect succeeded
\* returns success and leaves the adapter running (until Stop is called),
\* however its steps interleave with those of the listener it has spawned.
C31_StartSucceedsOnceConnected ==
    (config.ReconnectInterval = 0 /\ startConn # Nil /\ startPc = "done") =>
        /\ startRet = "ok"
        /\ stopPc = "idle" /\ ~stopped => running

(* ------------------------------ a listener's own connection ----------- *)
\* C32: a listener on its read-error path closes and clears only the socket
\* it was reading from: when it finds a socket in c.conn, it is its own.
C32_TearsDownOwnConnection ==
    [][\A i \in SockIds :
          ListenTeardown(i) /\ conn # Nil => conn = lisConn[i]]_vars

(* ------------------------------ Send and the current connection ------- *)
\* C33: when Send performs its write, the socket it took from c.conn is
\* still the one in c.conn and has not been closed: Send never writes to a
\* socket that the listener's error path or Stop has closed since the
\* snapshot, or that a reconnect has replaced.
C33_WritesToCurrentConnection ==
    [][\A p \in Senders :
          SendWriteBegin(p) => conn = sendConn[p] /\ sock[sendConn[p]] = "open"]_vars

\* The same, for the replaced socket alone: Send's write is never made on one
\* socket while c.conn holds another one.
C33_NeverWritesToReplaced ==
    [][\A p \in Senders :
          SendWriteBegin(p) => conn \in {Nil, sendConn[p]}]_vars

(* ------------------------------ wire order ----------------------------- *)
\* C34: frames are written in the order in which their echo numbers were
\* assigned: of two frames on the wire, the one written first has the
\* smaller echo.
C34_WireFollowsEchoOrder ==
    \A k, l \in 1..Len(wire) :
       (k < l /\ wire[k].half = "head" /\ wire[l].half = "head") =>
           wire[k].echo < wire[l].echo

(* ------------------------------ no orphan connection ------------------- *)
\* A listener goroutine is reading from socket s or is tearing it down, or is
\* at the top of its loop, about to take whatever c.conn holds.
Listening(s) ==
    \E i \in SockIds :
       \/ lisPc[i] \in {"select", "snap"}
       \/ lisPc[i] \in {"read", "teardown"} /\ lisConn[i] = s

\* Start or the reconnect loop has stored s and has "go c.listen()" next.
AboutToListen(s) ==
    \/ startPc = "listen" /\ startConn = s
    \/ rlPc = "listen" /\ rlConn = s

\* C35: as long as Stop has not been called, a socket in c.conn has a
\* listener, or the task that stored it is about to spawn one.
C35_NoOrphanConnection ==
    (stopPc = "idle" /\ ~stopped /\ conn # Nil) =>
        Listening(conn) \/ AboutToListen(conn)

\* After a drop and a reconnect the second socket is in c.conn and the
\* listener spawned for it is blocked in its read; Stop was never called.
C35_Witness ==
    /\ stopPc = "idle" /\ ~stopped
    /\ conn = 2
    /\ sock[1] = "closed"
    /\ \E i \in SockIds : lisPc[i] = "read" /\ lisConn[i] = 2
    /\ \A i \in SockIds : lisPc[i] \in {"read", "done"}

(* ------------------------------ single reader ------------------------- *)
\* The listener goroutines that have not returned, and those in ReadMessage
\* or past it on the error path.
Alive == {i \in SockIds : lisPc[i] \notin {"unborn", "done"}}
Readers == {i \in SockIds : lisPc[i] \in {"read", "teardown"}}

\* C36: at most one listener is in its read at any time, so that no two
\* listeners read from the same connection; until Stop is called at most one
\* listener exists at all; and a listener other than the first is spawned
\* only when the one before it has returned, having cleared c.conn, or when a
\* call of Stop has cleared c.conn.
C36_SingleReader ==
    /\ [](Cardinality(Readers) <= 1)
    /\ [](\A i, j \in Readers : lisConn[i] = lisConn[j] => i = j)
    /\ [](stopPc = "idle" /\ ~stopped => Cardinality(Alive) <= 1)
    /\ [][nListeners' > nListeners /\ nListeners > 0 =>
            \/ Alive = {} /\ conn \in {Nil, rlConn}
            \/ stopped]_vars

\* The first listener has returned after a read error and the second one,
\* spawned by the reconnect loop, is in its read on the second socket.
C36_Witness ==
    /\ stopPc = "idle" /\ ~stopped
    /\ lisPc[1] = "done"
    /\ lisConn[1] = 1
    /\ lisPc[2] = "read"
    /\ lisConn[2] = 2
    /\ rlPc = "wait"

(* ------------------------------ dedup before the filters --------------- *)
\* The event is one the filters of handleMessage drop: no content, a group
\* message without trigger, or a message_type that is neither private nor
\* group.
Filtered(evt) ==
    \/ evt.Content = <<>>
    \/ evt.MessageType = "group"
         /\ ~checkGroupTrigger(evt.Content, evt.IsBotMentioned).triggered
    \/ evt.MessageType \notin {"private", "group"}

\* C37: a message event with a recordable id that is new and that the filters
\* drop is not dispatched, and its id is recorded all the same; a frame whose
\* id is in the window is not dispatched, whatever the filters would say.
C37_DedupBeforeFilters ==
    [][\A f \in InboundFrames :
         HandleDirect(f) /\ Reaches(f) =>
           LET evt == normalizeMessageEvent(f)
           IN /\ (evt.MessageID \notin {"", "0"} /\ evt.MessageID \notin dedup
                    /\ Filtered(evt)) =>
                      evt.MessageID \in dedup' /\ bus' = bus
              /\ evt.MessageID \in dedup => bus' = bus]_vars

\* Two frames were handled and only one id was ever recorded, by a frame: the
\* first frame, with that id, was dropped by a filter, and the second, a
\* private message with content and the same id, was not dispatched.
C37_Witness ==
    /\ budget = 0
    /\ dupId = ""
    /\ handled = PrivateFrame(IdPool[1])
    /\ dedup = {IdPool[1]}
    /\ dedupIdx = 1
    /\ bus = <<>>

(* ------------------------------ dispatched content --------------------- *)
\* C38: every call of HandleMessage carries content that is not empty.
C38_DispatchedContentNonEmpty ==
    \A k \in 1..Len(bus) : bus[k].content # <<>>

\* The same for private messages alone.
C38_PrivateContentNonEmpty ==
    \A k \in 1..Len(bus) : bus[k].chatID[1] = "private" => bus[k].content # <<>>

(* ------------------------------ chat id round trip --------------------- *)
\* Variant: the chat id is the bare number, without the scope in front.
ChatIDTextBare(chatID) == FormatInt(chatID[2])

\* Lines 565-584: the chat id handleMessage passes to the bus, as the string
\* it builds: "private:" + FormatInt(user id) or "group:" + FormatInt(group id).
ChatIDText(chatID) ==
    (IF chatID[1] = "private" THEN PrivatePfx ELSE GroupPfx) \o FormatInt(chatID[2])

\* Ids of users and groups: zero, negative and positive ones, and both ends of
\* the int64 range; as JSON numbers and as JSON strings.
RoundTripIds == {0, 0 - 1, 7, MinInt64, MaxInt64}
RoundTripFrames ==
    {[PrivateFrame(m) EXCEPT !.user_id = u] :
        m \in {IdPool[1], IdPool[2]}, u \in {Num(n) : n \in RoundTripIds}}
      \cup {[GroupFrame(m, <<"!", "h">>) EXCEPT !.group_id = g] :
              m \in {IdPool[1], IdPool[2]},
              g \in {Num(n) : n \in RoundTripIds} \cup {NumStr(n) : n \in RoundTripIds}
                      \cup {Absent}}

\* buildSendRequest applied to the chat id of the last dispatched message, as
\* by a consumer of the bus that answers it.
ReplyDirect ==
    /\ bus # <<>>
    /\ sendsLeft > 0
    /\ sendsLeft' = sendsLeft - 1
    /\ LET r == buildSendRequest(ChatIDText(bus[Len(bus)].chatID))
       IN /\ sendReq' = [sendReq EXCEPT ![1] = r.req]
          /\ sendRet' = IF r.err THEN "err_invalid" ELSE "ok"
    /\ UNCHANGED <<config, toolVars, handled, running, ctx, dedupVars, connVars, startVars,
                   rlVars, lisVars, stopVars, bus, probeVars, since, echoCounter,
                   writeMu, sendPc, sendConn, sendEcho, wire, echoes>>

NextRoundTrip ==
    \/ \E f \in RoundTripFrames : HandleDirect(f)
    \/ ReplyDirect

InitRoundTrip ==
    /\ InitWith(2)
    /\ config.WSUrl # ""
    /\ config.ReconnectInterval > 0

SpecRoundTrip == InitRoundTrip /\ [][NextRoundTrip]_vars

\* C39: the chat id of a dispatched event names the event's scope and its
\* user id (private) or group id (group), and buildSendRequest accepts that
\* chat id and addresses the same scope and the same number.
C39_ChatIdRoundTrip ==
    /\ [][\A f \in RoundTripFrames :
            HandleDirect(f) /\ bus' # bus =>
              LET evt == normalizeMessageEvent(f)
              IN bus'[Len(bus')].chatID =
                   IF f.message_type = "private" THEN <<"private", evt.UserID>>
                   ELSE <<"group", evt.GroupID>>]_vars
    /\ [][ReplyDirect =>
            LET chatID == bus[Len(bus)].chatID
            IN /\ sendRet' = "ok"
               /\ sendReq'[1] =
                    [action |-> IF chatID[1] = "private" THEN "send_private_msg"
                                ELSE "send_group_msg",
                     id |-> chatID[2]]]_vars

\* A message of the group with the least int64 as id was dispatched, and the
\* answer to it is a send_group_msg to that group.
C39_Witness ==
    /\ bus # <<>>
    /\ bus[Len(bus)].chatID = <<"group", MinInt64>>
    /\ sendRet = "ok"
    /\ sendReq[1] = [action |-> "send_group_msg", id |-> MinInt64]

(* ------------------------------ cancellation of a retried request ------ *)
\* There is no wait after the third attempt.
C40_NoWaitAfterLastAttempt == retryPc = "sleep" => retryI < maxRetries - 1

====
